---- MODULE Spec2Model ----
(***************************************************************************)
(* Model of the romba download executor (DownloadService), its Job Store   *)
(* (DatabaseService), the queue view command (QueueCommand) and the result *)
(* cache (CacheService).                                                   *)
(*                                                                         *)
(* JavaScript runs one synchronous block at a time: an action of this      *)
(* model is one handler, or the part of an async function between two      *)
(* await points.  The synchronous part of an async callee (for example the *)
(* Object.assign of updateDownload, which precedes its `await db.write()`) *)
(* belongs to the block of its caller.                                     *)
(***************************************************************************)
EXTENDS Integers, Sequences, FiniteSets, TLC

(* ---------------------------- bounds ----------------------------------- *)
MaxJobs == 3        \* jobs ever added to the Job Store
MaxClock == 1       \* last value of the millisecond clock
MaxLimit == 2       \* largest settings.maxConcurrentDownloads
FileBytes == 2      \* bytes of the remote file
MaxApiJobs == 2     \* jobs in the store when startDownload is called directly
MaxTicks == 2       \* advances of the clock the cache reads
MaxSearches == 2    \* searchGames calls of the two clients
MaxRows == 2        \* rows of a listing
MaxTitles == 11     \* titles of the long listing
MaxChdBytes == 2    \* bytes of a CHD file that chdman writes
MaxChdCalls == 2    \* convertToCHD and cleanupOriginalFiles calls
TransferBytes == 3  \* bytes of the remote file when one transfer is followed
MaxTransferJobs == 1 \* jobs in the store when one transfer is followed
MaxLiveJobs == 2    \* jobs in the store when the queue is followed to its end

(* ---------------------------- constants -------------------------------- *)
DefaultMaxConcurrentDownloads == 3
defaultTTL == 86400000

Ids == 1..MaxJobs

(* ---------------------------- values ----------------------------------- *)
NoError == "none"
AlreadyInProgress == "Download already in progress"
CancelledByUser == "Cancelled by user"
Canceled == "canceled"
TransferError == "transfer failed"
WriteError == "write failed"

VARIABLES
  downloads,          \* db.data.downloads: the array of DownloadJob
  maxConcurrentDownloads, \* db.data.settings.maxConcurrentDownloads
  activeDownloads,    \* keys of DownloadService.activeDownloads
  aborted,            \* signal.aborted of the AbortController of each id
  pc,                 \* await point of the startDownload task of each id
  caller,             \* who called startDownload for each id
  downloadedLength,   \* local downloadedLength of each task
  totalLength,        \* local totalLength of each task
  caught,             \* the error bound in the catch block of each task
  ret                 \* the value the last step handed to a caller: what an API call
                      \* returned or threw, or the error a startDownload promise
                      \* rejected with towards a caller that does not absorb it

VARIABLES
  cacheFiles,         \* the files of cacheDir: cache key -> CacheEntry
  cacheNow,           \* Date.now() as the cache reads it
  cacheTicks,         \* how often cacheNow has advanced
  cacheCall           \* the cache call made in the last step and its result

VARIABLES
  pending,            \* the searchGames call that waits for the answer to its request
  searchCall,         \* the searchGames call that finished last
  prevSearch,         \* the searchGames call that finished before it
  searches            \* how many searchGames calls were made

VARIABLES
  disk,               \* the files of the file system: path -> size in bytes
  conversion,         \* the convertToCHD call: its await point, the processes it
                      \* spawned and how they ended, and what it returned
  shouldCall,         \* the shouldConvertToCHD call made last and its result
  cleanupCall,        \* the cleanupOriginalFiles call made last and its outcome
  chdCalls            \* how many convertToCHD and cleanupOriginalFiles calls were made

cvars == <<cacheFiles, cacheNow, cacheTicks, cacheCall>>

svars == <<pending, searchCall, prevSearch, searches>>

hvars == <<disk, conversion, shouldCall, cleanupCall, chdCalls>>

dvars == <<downloads, maxConcurrentDownloads, activeDownloads, aborted, pc,
           caller, downloadedLength, totalLength, caught, ret>>

vars == <<dvars, cvars, svars, hvars>>

NoCall == "none"

(* ---------------------------- strings ---------------------------------- *)
\* A string is a sequence of one-character strings.
UpperCase ==
  <<"A", "B", "C", "D", "E", "F", "G", "H", "I", "J", "K", "L", "M", "N", "O", "P", "Q", "R", "S", "T", "U", "V", "W", "X", "Y", "Z">>

LowerCase ==
  <<"a", "b", "c", "d", "e", "f", "g", "h", "i", "j", "k", "l", "m", "n", "o", "p", "q", "r", "s", "t", "u", "v", "w", "x", "y", "z">>

Digits == {"0", "1", "2", "3", "4", "5", "6", "7", "8", "9"}

\* String.prototype.toLowerCase, one character
toLowerCase(c) ==
  IF \E i \in DOMAIN UpperCase : UpperCase[i] = c
    THEN LowerCase[CHOOSE i \in DOMAIN UpperCase : UpperCase[i] = c]
    ELSE c

\* String.prototype.toLowerCase
ToLower(s) == [i \in DOMAIN s |-> toLowerCase(s[i])]

StartsWith(s, p) == Len(p) <= Len(s) /\ SubSeq(s, 1, Len(p)) = p

EndsWith(s, p) == Len(p) <= Len(s) /\ SubSeq(s, Len(s) - Len(p) + 1, Len(s)) = p

\* String.prototype.includes
Includes(s, p) == \E i \in 1..(Len(s) - Len(p) + 1) : SubSeq(s, i, i + Len(p) - 1) = p

\* the position of the first occurrence of p in s, 0 when there is none
IndexOf(s, p) ==
  IF Includes(s, p)
    THEN CHOOSE i \in 1..(Len(s) - Len(p) + 1) :
           /\ SubSeq(s, i, i + Len(p) - 1) = p
           /\ \A k \in 1..(i - 1) : SubSeq(s, k, k + Len(p) - 1) # p
    ELSE 0

\* the position of the last occurrence of the character c in s, 0 when there is none
LastIndexOf(s, c) ==
  IF \E i \in DOMAIN s : s[i] = c
    THEN CHOOSE i \in DOMAIN s : s[i] = c /\ \A k \in (i + 1)..Len(s) : s[k] # c
    ELSE 0

\* \s of a regular expression, on the characters of the model
IsSpace(c) == c = " "

RECURSIVE TrimStart(_)
TrimStart(s) == IF s # <<>> /\ IsSpace(Head(s)) THEN TrimStart(Tail(s)) ELSE s

RECURSIVE TrimEnd(_)
TrimEnd(s) ==
  IF s # <<>> /\ IsSpace(s[Len(s)]) THEN TrimEnd(SubSeq(s, 1, Len(s) - 1)) ELSE s

\* String.prototype.trim
Trim(s) == TrimEnd(TrimStart(s))

(* ---------------------------- Job Store -------------------------------- *)
\* Object.assign(job, updates)
ObjectAssign(job, updates) ==
  [f \in DOMAIN job |-> IF f \in DOMAIN updates THEN updates[f] ELSE job[f]]

\* The in-memory effect of updateDownload(id, updates) on an array
updateDownload(ds, id, updates) ==
  [i \in DOMAIN ds |->
     IF ds[i].id = id /\ \A k \in 1..(i-1) : ds[k].id # id
       THEN ObjectAssign(ds[i], updates) ELSE ds[i]]

getDownloadsByStatus(ds, status) == SelectSeq(ds, LAMBDA d : d.status = status)

getQueuedDownloads(ds) == getDownloadsByStatus(ds, "queued")

getActiveDownloads(ds) == getDownloadsByStatus(ds, "downloading")

\* the stored job with this id (ids are unique)
JobOf(ds, id) == ds[CHOOSE i \in DOMAIN ds : ds[i].id = id]

\* new Date(): only the order of the timestamps is observed (by the sort of
\* the queue view).  Every handler that reads the clock reads a later
\* millisecond than the handlers before it, until the clock reaches MaxClock.
RECURSIVE LatestStartTime(_)
LatestStartTime(ds) ==
  IF ds = <<>> THEN -1
  ELSE LET rest == LatestStartTime(Tail(ds))
       IN IF Head(ds).startTime > rest THEN Head(ds).startTime ELSE rest

Now(ds) == IF LatestStartTime(ds) < MaxClock THEN LatestStartTime(ds) + 1 ELSE MaxClock

StoredIds(ds) == {ds[i].id : i \in DOMAIN ds}

\* slice(0, n)
Slice(s, n) == IF n <= 0 THEN <<>> ELSE SubSeq(s, 1, IF n < Len(s) THEN n ELSE Len(s))

SeqIds(s) == {s[i].id : i \in DOMAIN s}

(* ---------------------------- Download Executor ------------------------ *)
\* The executor-owned state and the Job Store array as one value, so that
\* the synchronous part of startDownload can be applied in a loop.
Service ==
  [downloads |-> downloads, activeDownloads |-> activeDownloads,
   aborted |-> aborted, pc |-> pc, caller |-> caller,
   downloadedLength |-> downloadedLength, totalLength |-> totalLength,
   caught |-> caught, thrown |-> NoError]

\* startDownload without the in-flight check
startDownloadUnchecked(st, id, who, now) ==
  [st EXCEPT
     !.activeDownloads = @ \cup {id},
     !.aborted[id] = FALSE,
     !.downloads = updateDownload(@, id,
        [status |-> "downloading", progress |-> 0, startTime |-> now]),
     !.pc[id] = "connecting",
     !.caller[id] = who,
     !.downloadedLength[id] = 0,
     !.totalLength[id] = 0,
     !.caught[id] = NoError]

\* startDownload(job) up to its first await: the in-flight check, the new
\* AbortController, and the in-memory part of the Downloading update.
\* st.thrown is the error the call rejects with before doing anything.
startDownload(st, id, who, now) ==
  IF id \in st.activeDownloads
    THEN [st EXCEPT !.thrown = AlreadyInProgress]
    ELSE [st EXCEPT
            !.activeDownloads = @ \cup {id},
            !.aborted[id] = FALSE,
            !.downloads = updateDownload(@, id,
               [status |-> "downloading", progress |-> 0, startTime |-> now]),
            !.pc[id] = "connecting",
            !.caller[id] = who,
            !.downloadedLength[id] = 0,
            !.totalLength[id] = 0,
            !.caught[id] = NoError]

\* for (const job of jobsToStart) this.startDownload(job).catch(...)
RECURSIVE StartEach(_, _, _)
StartEach(st, jobs, now) ==
  IF jobs = <<>> THEN st
  ELSE StartEach([startDownload(st, Head(jobs).id, "processQueue", now)
                    EXCEPT !.thrown = NoError],
                 Tail(jobs), now)

\* processQueue that forgets the transfers already in flight
jobsToStartIgnoringActive(ds, active, limit) ==
  Slice(getQueuedDownloads(ds), limit)

\* processQueue that takes one job more than there are free slots
jobsToStartOneMore(ds, active, limit) ==
  IF Cardinality(active) >= limit THEN <<>>
  ELSE Slice(getQueuedDownloads(ds), limit - Cardinality(active) + 1)

\* processQueue that passes over the job at the head of the queue
jobsToStartAfterHead(ds, active, limit) ==
  IF Cardinality(active) >= limit \/ getQueuedDownloads(ds) = <<>> THEN <<>>
  ELSE Slice(Tail(getQueuedDownloads(ds)), limit - Cardinality(active))

\* The jobs processQueue picks
jobsToStart(ds, active, limit) ==
  IF Cardinality(active) >= limit THEN <<>>
  ELSE Slice(getQueuedDownloads(ds), limit - Cardinality(active))

Install(st) ==
  /\ downloads' = st.downloads
  /\ activeDownloads' = st.activeDownloads
  /\ aborted' = st.aborted
  /\ pc' = st.pc
  /\ caller' = st.caller
  /\ downloadedLength' = st.downloadedLength
  /\ totalLength' = st.totalLength
  /\ caught' = st.caught

\* Math.round(x) for x = num / den >= 0
MathRound(num, den) == (2 * num + den) \div (2 * den)

\* progress computed by the 'data' listener
progressOf(downloaded, total) ==
  IF total > 0 THEN MathRound(downloaded * 100, total) ELSE 0

\* The catch block of startDownload up to its await
catchBlock(st, id, err) ==
  [st EXCEPT
     !.downloads = updateDownload(@, id, [status |-> "failed", error |-> err]),
     !.caught[id] = err,
     !.downloadedLength[id] = 0,
     !.totalLength[id] = 0,
     !.pc[id] = "failing"]

(* ---------------------------- Queue view ------------------------------- *)
\* Array.prototype.sort is stable; the comparator orders by startTime,
\* newest first.
RECURSIVE InsertByStartTime(_, _)
InsertByStartTime(job, sorted) ==
  IF sorted = <<>> THEN <<job>>
  ELSE IF Head(sorted).startTime >= job.startTime
         THEN <<Head(sorted)>> \o InsertByStartTime(job, Tail(sorted))
         ELSE <<job>> \o sorted

RECURSIVE SortByStartTimeDesc(_)
SortByStartTimeDesc(ds) ==
  IF ds = <<>> THEN <<>>
  ELSE InsertByStartTime(ds[Len(ds)], SortByStartTimeDesc(SubSeq(ds, 1, Len(ds) - 1)))


(* ---------------------------- Result Cache ----------------------------- *)
\* Strings are sequences of one-character strings over this alphabet.
\* the characters of [a-z0-9]
LowerAlnum == {LowerCase[i] : i \in DOMAIN LowerCase} \cup Digits

\* searchTerm.toLowerCase().replace(/[^a-z0-9]/g, '_')
normalizeTerm(term) ==
  [i \in DOMAIN term |->
     IF toLowerCase(term[i]) \in LowerAlnum THEN toLowerCase(term[i]) ELSE "_"]

getCacheKey(service, consoleSystem, searchTerm) ==
  service \o <<"_">> \o consoleSystem \o <<"_">> \o normalizeTerm(searchTerm)

\* The triples the callers pass
Services == {<<"v">>}

Systems == {<<"g">>}

Terms == {<<"a">>, <<"a", " ">>, <<"A", "_">>}

Triples == [service : Services, consoleSystem : Systems, searchTerm : Terms]

KeyOf(t) == getCacheKey(t.service, t.consoleSystem, t.searchTerm)

\* The SearchResult values stored; writeJson and readJson return them as
\* they are (strings, numbers and arrays only).
Results == {[games |-> <<>>, totalFound |-> 0], [games |-> <<"x">>, totalFound |-> 1]}

\* The optional ttl argument: <<>> when omitted
TTLArgs == {<<>>, <<0>>, <<1>>, <<defaultTTL>>}

\* ttl || this.defaultTTL
effectiveTTL(ttl) == IF ttl = <<>> \/ ttl[1] = 0 THEN defaultTTL ELSE ttl[1]

\* an entry that never counts as expired
isExpiredNever(entry, now) == FALSE

\* now - cacheEntry.timestamp > cacheEntry.ttl
isExpired(entry, now) == now - entry.timestamp > entry.ttl

\* what CacheService.get returns: <<>> for null, <<result>> for a hit
cacheGetRet(files, key, now) ==
  IF key \notin DOMAIN files \/ isExpired(files[key], now)
    THEN <<>> ELSE <<files[key].result>>

\* the files CacheService.get leaves: an expired entry is removed
cacheGetFiles(files, key, now) ==
  IF key \in DOMAIN files /\ isExpired(files[key], now)
    THEN [k \in DOMAIN files \ {key} |-> files[k]]
    ELSE files

\* a set that writes no file
cacheSetFilesNowhere(files, key, result, ttl, now) == files

\* the files CacheService.set leaves
cacheSetFiles(files, key, result, ttl, now) ==
  [k \in DOMAIN files \cup {key} |->
     IF k = key
       THEN [result |-> result, timestamp |-> now, ttl |-> effectiveTTL(ttl)]
       ELSE files[k]]

NoCacheCall == [op |-> "none", key |-> <<>>, arg |-> <<>>, ret |-> <<>>]

CacheInit ==
  /\ cacheFiles = << >>
  /\ cacheNow = 0
  /\ cacheTicks = 0
  /\ cacheCall = NoCacheCall

\* time passes between two cache calls
cacheTick ==
  /\ cacheTicks < MaxTicks
  /\ \E dt \in {1, defaultTTL} : cacheNow' = cacheNow + dt
  /\ cacheTicks' = cacheTicks + 1
  /\ UNCHANGED <<cacheFiles, cacheCall>>
  /\ UNCHANGED <<dvars, svars, hvars>>

\* CacheService.set: writes the entry; returns nothing
cacheSet(t, result, ttl) ==
  /\ cacheFiles' = cacheSetFiles(cacheFiles, KeyOf(t), result, ttl, cacheNow)
  /\ cacheCall' = [op |-> "set", key |-> KeyOf(t), arg |-> <<result>>, ret |-> <<>>]
  /\ UNCHANGED <<cacheNow, cacheTicks>>
  /\ UNCHANGED <<dvars, svars, hvars>>

\* CacheService.get: ret is <<>> for null, <<result>> for a hit
cacheGet(t) ==
  /\ cacheFiles' = cacheGetFiles(cacheFiles, KeyOf(t), cacheNow)
  /\ cacheCall' = [op |-> "get", key |-> KeyOf(t), arg |-> <<>>,
                   ret |-> cacheGetRet(cacheFiles, KeyOf(t), cacheNow)]
  /\ UNCHANGED <<cacheNow, cacheTicks>>
  /\ UNCHANGED <<dvars, svars, hvars>>

\* the files without the one of key; fs.remove
removeEntry(files, key) == [k \in DOMAIN files \ {key} |-> files[k]]

\* The loop of CacheService.cleanup over the files that fs.readdir listed, in
\* the order it listed them.  A file that cannot be read, or whose entry is
\* older than its TTL, is removed and counted; when fs.remove of the file
\* locked throws (in the try block and again in the inner catch block) the
\* error leaves the loop.
RECURSIVE cleanupLoop(_, _, _, _, _, _)
cleanupLoop(files, listed, unreadable, locked, now, deletedCount) ==
  IF listed = <<>>
    THEN [files |-> files, deletedCount |-> deletedCount, threw |-> FALSE]
  ELSE LET key == Head(listed) IN
       IF key \in unreadable \/ isExpired(files[key], now)
         THEN IF key = locked
                THEN [files |-> files, deletedCount |-> deletedCount, threw |-> TRUE]
                ELSE cleanupLoop(removeEntry(files, key), Tail(listed), unreadable,
                                 locked, now, deletedCount + 1)
         ELSE cleanupLoop(files, Tail(listed), unreadable, locked, now, deletedCount)

\* the orders in which fs.readdir may list the files
Listings(files) ==
  {listed \in [1..Cardinality(DOMAIN files) -> DOMAIN files] :
     \A i, j \in DOMAIN listed : i # j => listed[i] # listed[j]}

\* no fs.remove fails
NoKey == <<"none">>

\* what CacheService.cleanup returns
cleanupRet(deletedCount) == [deletedCount |-> deletedCount]

\* CacheService.cleanup: enumerable is whether ensureDir and readdir succeed;
\* the outer catch block returns 0
cleanup(enumerable, listed, unreadable, locked) ==
  /\ listed \in Listings(cacheFiles)
  /\ LET run == cleanupLoop(cacheFiles, listed, unreadable, locked, cacheNow, 0)
     IN /\ cacheFiles' = IF enumerable THEN run.files ELSE cacheFiles
        /\ cacheCall' = [op |-> "cleanup", key |-> <<>>,
                         arg |-> <<>>,
                         ret |-> <<cleanupRet(IF enumerable /\ ~run.threw
                                                THEN run.deletedCount ELSE 0)>>]
  /\ UNCHANGED <<cacheNow, cacheTicks>>
  /\ UNCHANGED <<dvars, svars, hvars>>

(* ---------------------------- search clients --------------------------- *)
VIMMS_BASE_URL == <<"h", "t", "t", "p", "s", ":", "/", "/", "v", "i", "m", "m", ".", "n", "e", "t">>

MYRIENT_BASE_URL == <<"h", "t", "t", "p", "s", ":", "/", "/", "m", "y", "r", "i", "e", "n", "t", ".", "e", "r", "i", "s", "t", "a", ".", "m", "e">>

\* consoleMapping of VimmsService.searchGames
VimmsConsoleMapping ==
  (<<"g", "a", "m", "e", "b", "o", "y">> :> <<"G", "B">>)
  @@ (<<"g", "b">> :> <<"G", "B">>)
  @@ (<<"g", "b", "a">> :> <<"G", "B", "A">>)
  @@ (<<"g", "b", "c">> :> <<"G", "B", "C">>)
  @@ (<<"n", "e", "s">> :> <<"N", "E", "S">>)
  @@ (<<"s", "n", "e", "s">> :> <<"S", "N", "E", "S">>)
  @@ (<<"n", "6", "4">> :> <<"N", "6", "4">>)
  @@ (<<"g", "e", "n", "e", "s", "i", "s">> :> <<"G", "e", "n", "e", "s", "i", "s">>)
  @@ (<<"m", "e", "g", "a", "d", "r", "i", "v", "e">> :> <<"G", "e", "n", "e", "s", "i", "s">>)
  @@ (<<"m", "a", "s", "t", "e", "r", "s", "y", "s", "t", "e", "m">> :> <<"S", "M", "S">>)
  @@ (<<"s", "a", "t", "u", "r", "n">> :> <<"S", "a", "t", "u", "r", "n">>)
  @@ (<<"d", "r", "e", "a", "m", "c", "a", "s", "t">> :> <<"D", "r", "e", "a", "m", "c", "a", "s", "t">>)
  @@ (<<"p", "s", "x">> :> <<"P", "S", "1">>)
  @@ (<<"p", "s", "1">> :> <<"P", "S", "1">>)
  @@ (<<"p", "s", "2">> :> <<"P", "S", "2">>)
  @@ (<<"p", "s", "3">> :> <<"P", "S", "3">>)
  @@ (<<"p", "s", "p">> :> <<"P", "S", "P">>)
  @@ (<<"d", "s">> :> <<"D", "S">>)
  @@ (<<"n", "d", "s">> :> <<"D", "S">>)
  @@ (<<"3", "d", "s">> :> <<"3", "D", "S">>)

\* consoleMapping of MyrientService.searchGames
MyrientConsoleMapping ==
  (<<"g", "a", "m", "e", "b", "o", "y">> :> <<"N", "o", "-", "I", "n", "t", "r", "o", "/", "N", "i", "n", "t", "e", "n", "d", "o", " ", "-", " ", "G", "a", "m", "e", " ", "B", "o", "y">>)
  @@ (<<"g", "b">> :> <<"N", "o", "-", "I", "n", "t", "r", "o", "/", "N", "i", "n", "t", "e", "n", "d", "o", " ", "-", " ", "G", "a", "m", "e", " ", "B", "o", "y">>)
  @@ (<<"g", "b", "a">> :> <<"N", "o", "-", "I", "n", "t", "r", "o", "/", "N", "i", "n", "t", "e", "n", "d", "o", " ", "-", " ", "G", "a", "m", "e", " ", "B", "o", "y", " ", "A", "d", "v", "a", "n", "c", "e">>)
  @@ (<<"g", "b", "c">> :> <<"N", "o", "-", "I", "n", "t", "r", "o", "/", "N", "i", "n", "t", "e", "n", "d", "o", " ", "-", " ", "G", "a", "m", "e", " ", "B", "o", "y", " ", "C", "o", "l", "o", "r">>)
  @@ (<<"n", "e", "s">> :> <<"N", "o", "-", "I", "n", "t", "r", "o", "/", "N", "i", "n", "t", "e", "n", "d", "o", " ", "-", " ", "N", "i", "n", "t", "e", "n", "d", "o", " ", "E", "n", "t", "e", "r", "t", "a", "i", "n", "m", "e", "n", "t", " ", "S", "y", "s", "t", "e", "m">>)
  @@ (<<"s", "n", "e", "s">> :> <<"N", "o", "-", "I", "n", "t", "r", "o", "/", "N", "i", "n", "t", "e", "n", "d", "o", " ", "-", " ", "S", "u", "p", "e", "r", " ", "N", "i", "n", "t", "e", "n", "d", "o", " ", "E", "n", "t", "e", "r", "t", "a", "i", "n", "m", "e", "n", "t", " ", "S", "y", "s", "t", "e", "m">>)
  @@ (<<"n", "6", "4">> :> <<"N", "o", "-", "I", "n", "t", "r", "o", "/", "N", "i", "n", "t", "e", "n", "d", "o", " ", "-", " ", "N", "i", "n", "t", "e", "n", "d", "o", " ", "6", "4">>)
  @@ (<<"g", "e", "n", "e", "s", "i", "s">> :> <<"N", "o", "-", "I", "n", "t", "r", "o", "/", "S", "e", "g", "a", " ", "-", " ", "M", "e", "g", "a", " ", "D", "r", "i", "v", "e", " ", "-", " ", "G", "e", "n", "e", "s", "i", "s">>)
  @@ (<<"m", "e", "g", "a", "d", "r", "i", "v", "e">> :> <<"N", "o", "-", "I", "n", "t", "r", "o", "/", "S", "e", "g", "a", " ", "-", " ", "M", "e", "g", "a", " ", "D", "r", "i", "v", "e", " ", "-", " ", "G", "e", "n", "e", "s", "i", "s">>)
  @@ (<<"m", "a", "s", "t", "e", "r", "s", "y", "s", "t", "e", "m">> :> <<"N", "o", "-", "I", "n", "t", "r", "o", "/", "S", "e", "g", "a", " ", "-", " ", "M", "a", "s", "t", "e", "r", " ", "S", "y", "s", "t", "e", "m", " ", "-", " ", "M", "a", "r", "k", " ", "I", "I", "I">>)
  @@ (<<"s", "a", "t", "u", "r", "n">> :> <<"N", "o", "-", "I", "n", "t", "r", "o", "/", "S", "e", "g", "a", " ", "-", " ", "S", "a", "t", "u", "r", "n">>)
  @@ (<<"d", "r", "e", "a", "m", "c", "a", "s", "t">> :> <<"N", "o", "-", "I", "n", "t", "r", "o", "/", "S", "e", "g", "a", " ", "-", " ", "D", "r", "e", "a", "m", "c", "a", "s", "t">>)
  @@ (<<"p", "s", "x">> :> <<"R", "e", "d", "u", "m", "p", "/", "S", "o", "n", "y", " ", "-", " ", "P", "l", "a", "y", "S", "t", "a", "t", "i", "o", "n">>)
  @@ (<<"p", "s", "1">> :> <<"R", "e", "d", "u", "m", "p", "/", "S", "o", "n", "y", " ", "-", " ", "P", "l", "a", "y", "S", "t", "a", "t", "i", "o", "n">>)
  @@ (<<"p", "l", "a", "y", "s", "t", "a", "t", "i", "o", "n">> :> <<"R", "e", "d", "u", "m", "p", "/", "S", "o", "n", "y", " ", "-", " ", "P", "l", "a", "y", "S", "t", "a", "t", "i", "o", "n">>)

\* consoleMapping of the catch block of MyrientService.searchGames
MyrientCatchMapping ==
  (<<"g", "a", "m", "e", "b", "o", "y">> :> <<"N", "o", "-", "I", "n", "t", "r", "o", "/", "N", "i", "n", "t", "e", "n", "d", "o", " ", "-", " ", "G", "a", "m", "e", " ", "B", "o", "y">>)
  @@ (<<"g", "b">> :> <<"N", "o", "-", "I", "n", "t", "r", "o", "/", "N", "i", "n", "t", "e", "n", "d", "o", " ", "-", " ", "G", "a", "m", "e", " ", "B", "o", "y">>)

\* a lookup that forgets toLowerCase
mapConsoleCaseSensitive(mapping, consoleSystem) ==
  IF consoleSystem \in DOMAIN mapping THEN mapping[consoleSystem] ELSE consoleSystem

\* consoleMapping[consoleSystem.toLowerCase()] || consoleSystem
mapConsole(mapping, consoleSystem) ==
  IF ToLower(consoleSystem) \in DOMAIN mapping
    THEN mapping[ToLower(consoleSystem)]
    ELSE consoleSystem

\* gameUrl.match(/\/vault\/(\d+)/)?.[1]: <<>> when there is no match
RECURSIVE DigitRun(_)
DigitRun(s) ==
  IF s # <<>> /\ Head(s) \in Digits THEN <<Head(s)>> \o DigitRun(Tail(s)) ELSE <<>>

vaultIdOf(gameUrl) ==
  LET starts == {i \in 1..(Len(gameUrl) - 7) :
                   /\ SubSeq(gameUrl, i, i + 6) = <<"/", "v", "a", "u", "l", "t", "/">>
                   /\ gameUrl[i + 7] \in Digits}
  IN IF starts = {} THEN <<>>
     ELSE LET i == CHOOSE k \in starts : \A m \in starts : k <= m
          IN <<DigitRun(SubSeq(gameUrl, i + 7, Len(gameUrl)))>>

\* $row.text(): the text of the cells of a row of the listing
rowTextOf(row) == row.name \o <<" ">> \o row.versionText \o <<" ">> \o row.extraText

\* hasIndicators && (rowText.includes(...) || gameName.toLowerCase().includes(...))
isDemoOrProto(row) ==
  /\ row.redBorder
  /\ \/ Includes(rowTextOf(row), <<"D", "e", "m", "o">>)
     \/ Includes(rowTextOf(row), <<"P", "r", "o", "t", "o", "t", "y", "p", "e">>)
     \/ Includes(rowTextOf(row), <<"U", "n", "l", "i", "c", "e", "n", "s", "e", "d">>)
     \/ Includes(ToLower(row.name), <<"d", "e", "m", "o">>)
     \/ Includes(ToLower(row.name), <<"p", "r", "o", "t", "o", "t", "y", "p", "e">>)

\* the region read from the flag image of the second cell
regionOf(row) ==
  IF row.cells >= 3 /\ row.flagTitle # <<>> /\ row.flagTitle[1] # ""
    THEN row.flagTitle[1] ELSE "Unknown"

\* the version read from the third cell
versionOf(row) ==
  IF row.cells >= 3 /\ row.versionText # <<>> /\ row.versionText # <<"-">>
    THEN row.versionText ELSE <<"1", ".", "0">>

\* the body of $('tr').each(...): the games pushed for the rows of a page
RECURSIVE vimmsParse(_, _)
vimmsParse(rows, mappedConsole) ==
  IF rows = <<>> THEN <<>>
  ELSE LET row == Head(rows)
           rest == vimmsParse(Tail(rows), mappedConsole)
       IN IF /\ row.name # <<>>
             /\ row.href # <<>>
             /\ ~Includes(row.name, <<"A", "d", "v", "a", "n", "c", "e", "d", " ", "S", "e", "a", "r", "c", "h">>)
             /\ ~isDemoOrProto(row)
            THEN <<[name |-> row.name,
                    url |-> VIMMS_BASE_URL \o row.href,
                    console |-> mappedConsole,
                    size |-> "Unknown",
                    vaultId |-> vaultIdOf(row.href),
                    region |-> regionOf(row),
                    version |-> versionOf(row)]>> \o rest
            ELSE rest

\* name.replace(/\s*\([^)]*\)$/g, ''): the leftmost position from which the
\* rest of the string is blanks, '(', characters other than ')', and ')'
parenSuffixAt(s, i) ==
  LET t == TrimStart(SubSeq(s, i, Len(s)))
  IN /\ Len(t) >= 2
     /\ t[1] = "("
     /\ t[Len(t)] = ")"
     /\ \A k \in 2..(Len(t) - 1) : t[k] # ")"

stripParenSuffix(s) ==
  IF \E i \in DOMAIN s : parenSuffixAt(s, i)
    THEN LET i == CHOOSE k \in DOMAIN s :
                    parenSuffixAt(s, k) /\ \A m \in 1..(k - 1) : ~parenSuffixAt(s, m)
         IN SubSeq(s, 1, i - 1)
    ELSE s

\* name.replace(/\s*-\s*[^-]*$/g, ''): the leftmost position from which the
\* rest of the string is blanks, '-', and characters other than '-'
dashSuffixAt(s, i) ==
  LET t == TrimStart(SubSeq(s, i, Len(s)))
  IN /\ Len(t) >= 1
     /\ t[1] = "-"
     /\ \A k \in 2..Len(t) : t[k] # "-"

stripDashSuffix(s) ==
  IF \E i \in DOMAIN s : dashSuffixAt(s, i)
    THEN LET i == CHOOSE k \in DOMAIN s :
                    dashSuffixAt(s, k) /\ \A m \in 1..(k - 1) : ~dashSuffixAt(s, m)
         IN SubSeq(s, 1, i - 1)
    ELSE s

normalizedName(name) == Trim(stripDashSuffix(stripParenSuffix(name)))

\* regionPriority.indexOf(region), with 999 for a region that is not listed
regionPriority == <<"Australia", "USA", "Europe", "Japan">>

regionPriorityOf(region) ==
  IF \E i \in DOMAIN regionPriority : regionPriority[i] = region
    THEN (CHOOSE i \in DOMAIN regionPriority : regionPriority[i] = region) - 1
    ELSE 999

\* String.prototype.split('.')
RECURSIVE SplitDots(_)
SplitDots(s) ==
  IF IndexOf(s, <<".">>) = 0 THEN <<s>>
  ELSE <<SubSeq(s, 1, IndexOf(s, <<".">>) - 1)>>
         \o SplitDots(SubSeq(s, IndexOf(s, <<".">>) + 1, Len(s)))

DigitValue(c) ==
  CASE c = "0" -> 0 [] c = "1" -> 1 [] c = "2" -> 2 [] c = "3" -> 3 [] c = "4" -> 4
    [] c = "5" -> 5 [] c = "6" -> 6 [] c = "7" -> 7 [] c = "8" -> 8 [] c = "9" -> 9

RECURSIVE DecimalValue(_)
DecimalValue(ds) ==
  IF ds = <<>> THEN 0
  ELSE 10 * DecimalValue(SubSeq(ds, 1, Len(ds) - 1)) + DigitValue(ds[Len(ds)])

\* parseInt(p) || 0: the leading digits after blanks, 0 when there are none
parseIntOr0(p) == DecimalValue(DigitRun(TrimStart(p)))

\* parseVersion(version), times 10000: parts[0] + parts[1]/100 + parts[2]/10000
parseVersion(version) ==
  IF Includes(version, <<"-">>) THEN 9999 * 10000
  ELSE LET parts == SplitDots(version)
       IN parseIntOr0(parts[1]) * 10000
            + (IF Len(parts) >= 2 THEN parseIntOr0(parts[2]) ELSE 0) * 100
            + (IF Len(parts) >= 3 THEN parseIntOr0(parts[3]) ELSE 0)

\* the comparator of gameList.sort: region preference, then the higher version
compareGames(a, b) ==
  IF regionPriorityOf(a.region) # regionPriorityOf(b.region)
    THEN regionPriorityOf(a.region) - regionPriorityOf(b.region)
    ELSE parseVersion(b.version) - parseVersion(a.version)

\* Array.prototype.sort (stable) with compareGames
RECURSIVE InsertGame(_, _)
InsertGame(game, sorted) ==
  IF sorted = <<>> THEN <<game>>
  ELSE IF compareGames(Head(sorted), game) <= 0
         THEN <<Head(sorted)>> \o InsertGame(game, Tail(sorted))
         ELSE <<game>> \o sorted

RECURSIVE SortGames(_)
SortGames(games) ==
  IF games = <<>> THEN <<>>
  ELSE InsertGame(games[Len(games)], SortGames(SubSeq(games, 1, Len(games) - 1)))

\* the keys of gameGroups in insertion order
RECURSIVE groupKeys(_)
groupKeys(games) ==
  IF games = <<>> THEN <<>>
  ELSE LET before == groupKeys(SubSeq(games, 1, Len(games) - 1))
           key == normalizedName(games[Len(games)].name)
       IN IF \E i \in DOMAIN before : before[i] = key THEN before ELSE Append(before, key)

\* gameGroups.get(key)
groupOf(games, key) == SelectSeq(games, LAMBDA g : normalizedName(g.name) = key)

\* The order of String.prototype.localeCompare on the characters of the
\* model: blank, punctuation, digits, letters; a lower-case letter before
\* its upper-case letter when nothing else differs.
Collation ==
  <<" ", "_", "-", ",", ".", "(", ")", "/",
    "0", "1", "2", "3", "4", "5", "6", "7", "8", "9">> \o LowerCase

CharRank(c) == CHOOSE i \in DOMAIN Collation : Collation[i] = toLowerCase(c)

RECURSIVE comparePrimary(_, _)
comparePrimary(a, b) ==
  IF a = <<>> /\ b = <<>> THEN 0
  ELSE IF a = <<>> THEN -1
  ELSE IF b = <<>> THEN 1
  ELSE IF CharRank(Head(a)) # CharRank(Head(b))
         THEN CharRank(Head(a)) - CharRank(Head(b))
         ELSE comparePrimary(Tail(a), Tail(b))

RECURSIVE compareCase(_, _)
compareCase(a, b) ==
  IF a = <<>> \/ b = <<>> THEN 0
  ELSE IF Head(a) = Head(b) THEN compareCase(Tail(a), Tail(b))
  ELSE IF Head(a) = toLowerCase(Head(a)) THEN -1 ELSE 1

localeCompare(a, b) ==
  IF comparePrimary(a, b) # 0 THEN comparePrimary(a, b) ELSE compareCase(a, b)

\* Array.prototype.sort (stable) with a.name.localeCompare(b.name)
RECURSIVE InsertByName(_, _)
InsertByName(game, sorted) ==
  IF sorted = <<>> THEN <<game>>
  ELSE IF localeCompare(Head(sorted).name, game.name) <= 0
         THEN <<Head(sorted)>> \o InsertByName(game, Tail(sorted))
         ELSE <<game>> \o sorted

RECURSIVE SortByName(_)
SortByName(games) ==
  IF games = <<>> THEN <<>>
  ELSE InsertByName(games[Len(games)], SortByName(SubSeq(games, 1, Len(games) - 1)))

\* deduplicateAndPrioritize that keeps the first game of every group
deduplicateKeepingFirst(games) ==
  SortByName([i \in DOMAIN groupKeys(games) |->
                groupOf(games, groupKeys(games)[i])[1]])

\* deduplicateAndPrioritize(games)
deduplicateAndPrioritize(games) ==
  SortByName([i \in DOMAIN groupKeys(games) |->
                SortGames(groupOf(games, groupKeys(games)[i]))[1]])

\* /\.(zip|7z|rar|...)$/i.test(href)
RomExtensions ==
  {<<"z", "i", "p">>, <<"7", "z">>, <<"r", "a", "r">>, <<"n", "e", "s">>, <<"s", "m", "c">>, <<"s", "f", "c">>, <<"n", "6", "4">>, <<"z", "6", "4">>, <<"g", "b">>, <<"g", "b", "c">>,
   <<"g", "b", "a">>, <<"n", "d", "s">>, <<"i", "s", "o">>, <<"b", "i", "n">>, <<"c", "u", "e">>, <<"m", "d">>, <<"s", "m", "d">>, <<"3", "2", "x">>, <<"g", "g">>, <<"s", "m", "s">>,
   <<"p", "c", "e">>, <<"w", "s">>, <<"w", "s", "c">>}

isRom(href) == \E e \in RomExtensions : EndsWith(ToLower(href), <<".">> \o e)

\* \w of a regular expression
IsWordChar(c) ==
  \/ c \in Digits
  \/ c = "_"
  \/ \E i \in DOMAIN LowerCase : LowerCase[i] = toLowerCase(c)

DemoKeywords ==
  {<<"d", "e", "m", "o">>, <<"s", "a", "m", "p", "l", "e">>, <<"p", "r", "e", "v", "i", "e", "w">>, <<"b", "e", "t", "a">>, <<"a", "l", "p", "h", "a">>, <<"p", "r", "o", "t", "o">>, <<"p", "r", "o", "t", "o", "t", "y", "p", "e">>,
   <<"t", "r", "i", "a", "l">>, <<"k", "i", "o", "s", "k">>, <<"t", "e", "s", "t">>}

\* the keyword k matches at position i of name, between two word boundaries
keywordAt(name, k, i) ==
  /\ i + Len(k) - 1 <= Len(name)
  /\ ToLower(SubSeq(name, i, i + Len(k) - 1)) = k
  /\ i = 1 \/ ~IsWordChar(name[i - 1])
  /\ i + Len(k) - 1 = Len(name) \/ ~IsWordChar(name[i + Len(k)])

\* a filter that finds the keywords anywhere in the title
isDemoGameAnywhere(name) == \E k \in DemoKeywords : Includes(ToLower(name), k)

\* /\b(demo|sample|...|test)\b/i.test(name)
isDemoGame(name) == \E k \in DemoKeywords : \E i \in DOMAIN name : keywordAt(name, k, i)

\* the body of $('a[href]').each(...): the games pushed for the anchors of a page
RECURSIVE myrientParse(_, _, _, _)
myrientParse(anchors, consoleUrl, mappedPath, searchLower) ==
  IF anchors = <<>> THEN <<>>
  ELSE LET a == Head(anchors)
           rest == myrientParse(Tail(anchors), consoleUrl, mappedPath, searchLower)
       IN IF /\ a.href # <<>>
             /\ ~StartsWith(a.href, <<".", ".">>)
             /\ a.name # <<>>
             /\ isRom(a.href)
             /\ Includes(ToLower(a.name), searchLower)
             /\ ~isDemoGame(a.name)
            THEN <<[name |-> a.name,
                    url |-> consoleUrl \o a.href,
                    console |-> mappedPath,
                    size |-> a.size]>> \o rest
            ELSE rest

\* games.slice(0, 10)
MaxResults == 10

EmptyResult(searchTerm, console) ==
  [games |-> <<>>, totalFound |-> 0, searchTerm |-> searchTerm, console |-> console]

\* a catch block that throws the error again
vimmsCatchRethrow(consoleSystem, searchTerm, error) ==
  [outcome |-> "error", thrown |-> error, ret |-> <<>>, store |-> FALSE]

\* the catch block of VimmsService.searchGames
\* a catch block that asks for the empty result to be stored
vimmsCatchStoring(consoleSystem, searchTerm, error) ==
  [outcome |-> "error", thrown |-> "none",
   ret |-> <<EmptyResult(searchTerm, consoleSystem)>>, store |-> TRUE]

vimmsCatch(consoleSystem, searchTerm, error) ==
  [outcome |-> "error", thrown |-> "none",
   ret |-> <<EmptyResult(searchTerm, consoleSystem)>>, store |-> FALSE]

\* a result that counts the games it returns
vimmsResultOfCountingSlice(games, searchTerm, mappedConsole) ==
  [games |-> Slice(games, MaxResults),
   totalFound |-> Len(Slice(games, MaxResults)),
   searchTerm |-> searchTerm,
   console |-> mappedConsole]

\* the result built from the deduplicated games
vimmsResultOf(games, searchTerm, mappedConsole) ==
  [games |-> Slice(games, MaxResults),
   totalFound |-> Len(games),
   searchTerm |-> searchTerm,
   console |-> mappedConsole]

\* VimmsService.searchGames from the answer of axios.get on: what the call
\* returns or throws, and whether it stores the result in the cache.
\* axios rejects on a network error, a timeout and every status that
\* validateStatus does not accept; a body that is not a string makes
\* response.data.includes throw.
vimmsAnswer(consoleSystem, searchTerm, resp) ==
  LET mappedConsole == mapConsole(VimmsConsoleMapping, consoleSystem) IN
  IF resp.kind = "reject" \/ resp.status \notin {200, 404}
    THEN vimmsCatch(consoleSystem, searchTerm, "request failed")
  ELSE IF resp.kind = "garbage"
    THEN vimmsCatch(consoleSystem, searchTerm, "includes is not a function")
  ELSE IF resp.noMatches
    THEN [outcome |-> "no matches", thrown |-> "none",
          ret |-> <<EmptyResult(searchTerm, mappedConsole)>>, store |-> FALSE]
  ELSE [outcome |-> "parsed", thrown |-> "none",
        ret |-> <<vimmsResultOf(
                    deduplicateAndPrioritize(vimmsParse(resp.rows, mappedConsole)),
                    searchTerm, mappedConsole)>>,
        store |-> TRUE]

\* the catch block of MyrientService.searchGames
myrientCatch(consoleSystem, searchTerm, error) ==
  [outcome |-> "error", thrown |-> "none",
   ret |-> <<EmptyResult(searchTerm, mapConsole(MyrientCatchMapping, consoleSystem))>>,
   store |-> FALSE]

\* MyrientService.searchGames from the answer of axios.get on; axios rejects
\* on a network error and on every status outside 2xx.
myrientAnswer(consoleSystem, searchTerm, resp) ==
  LET mappedPath == mapConsole(MyrientConsoleMapping, consoleSystem)
      consoleUrl == MYRIENT_BASE_URL \o <<"/", "f", "i", "l", "e", "s", "/">> \o mappedPath \o <<"/">>
      games == myrientParse(resp.rows, consoleUrl, mappedPath, ToLower(searchTerm))
  IN IF resp.kind = "reject" \/ resp.status # 200
       THEN myrientCatch(consoleSystem, searchTerm, "request failed")
       ELSE [outcome |-> "parsed", thrown |-> "none",
             ret |-> <<[games |-> Slice(games, MaxResults),
                        totalFound |-> Len(games),
                        searchTerm |-> searchTerm,
                        console |-> mappedPath]>>,
             store |-> FALSE]

\* no answer: the call made no request
NoResponse == [kind |-> "none", status |-> 0, noMatches |-> FALSE, rows |-> <<>>]

NoSearch ==
  [client |-> "none", consoleSystem |-> <<>>, searchTerm |-> <<>>, cacheGets |-> 0,
   requests |-> 0, response |-> NoResponse, outcome |-> "none", thrown |-> "none",
   ret |-> <<>>]

SearchInit ==
  /\ pending = <<>>
  /\ searchCall = NoSearch
  /\ prevSearch = NoSearch
  /\ searches = 0

\* the finished call becomes the last call
Finished(call, resp, answer) ==
  /\ searchCall' = [client |-> call.client,
                    consoleSystem |-> call.consoleSystem,
                    searchTerm |-> call.searchTerm,
                    cacheGets |-> call.cacheGets,
                    requests |-> call.requests,
                    response |-> resp,
                    outcome |-> answer.outcome,
                    thrown |-> answer.thrown,
                    ret |-> answer.ret]
  /\ prevSearch' = searchCall
  /\ pending' = <<>>

\* VimmsService.searchGames up to axios.get: the cache lookup, and on a miss
\* the request
vimmsSearchGames(consoleSystem, searchTerm) ==
  /\ pending = <<>>
  /\ searches < MaxSearches
  /\ searches' = searches + 1
  /\ LET key == getCacheKey(<<"v", "i", "m", "m", "s">>, consoleSystem, searchTerm)
         cachedResult == cacheGetRet(cacheFiles, key, cacheNow)
         call == [client |-> "vimms", consoleSystem |-> consoleSystem,
                  searchTerm |-> searchTerm, cacheGets |-> 1,
                  requests |-> IF cachedResult # <<>> THEN 0 ELSE 1]
     IN /\ cacheFiles' = cacheGetFiles(cacheFiles, key, cacheNow)
        /\ cacheCall' = [op |-> "get", key |-> key, arg |-> <<>>, ret |-> cachedResult]
        /\ IF cachedResult # <<>>
             THEN Finished(call, NoResponse, [outcome |-> "hit", thrown |-> "none",
                                  ret |-> cachedResult, store |-> FALSE])
             ELSE /\ pending' = <<call>>
                  /\ UNCHANGED <<searchCall, prevSearch>>
  /\ UNCHANGED <<cacheNow, cacheTicks>>
  /\ UNCHANGED <<dvars, hvars>>

\* the answer to the request of VimmsService.searchGames arrives
vimmsResponse(resp) ==
  /\ pending # <<>>
  /\ pending[1].client = "vimms"
  /\ LET call == pending[1]
         answer == vimmsAnswer(call.consoleSystem, call.searchTerm, resp)
         key == getCacheKey(<<"v", "i", "m", "m", "s">>, call.consoleSystem, call.searchTerm)
     IN /\ Finished(call, resp, answer)
        /\ IF answer.store
             THEN /\ cacheFiles' = cacheSetFiles(cacheFiles, key, answer.ret[1], <<>>, cacheNow)
                  /\ cacheCall' = [op |-> "set", key |-> key, arg |-> answer.ret, ret |-> <<>>]
             ELSE UNCHANGED <<cacheFiles, cacheCall>>
  /\ UNCHANGED <<cacheNow, cacheTicks, searches>>
  /\ UNCHANGED <<dvars, hvars>>

\* MyrientService.searchGames up to axios.get: the request
myrientSearchGames(consoleSystem, searchTerm) ==
  /\ pending = <<>>
  /\ searches < MaxSearches
  /\ searches' = searches + 1
  /\ pending' = <<[client |-> "myrient", consoleSystem |-> consoleSystem,
                   searchTerm |-> searchTerm, cacheGets |-> 0, requests |-> 1]>>
  /\ UNCHANGED <<searchCall, prevSearch>>
  /\ UNCHANGED <<cvars, dvars, hvars>>

\* the answer to the request of MyrientService.searchGames arrives
myrientResponse(resp) ==
  /\ pending # <<>>
  /\ pending[1].client = "myrient"
  /\ Finished(pending[1], resp,
              myrientAnswer(pending[1].consoleSystem, pending[1].searchTerm, resp))
  /\ UNCHANGED searches
  /\ UNCHANGED <<cvars, dvars, hvars>>

(* ---------------------------- the remote archives ---------------------- *)
\* The answer to axios.get: kind "reject" is a network error or a timeout;
\* "garbage" is a body that is not a string; "response" is a status and a
\* page, of which the clients read the marker text and the rows.
Response(kind, status, noMatches, rows) ==
  [kind |-> kind, status |-> status, noMatches |-> noMatches, rows |-> rows]

\* a table row of the Vimm's listing as cheerio presents it
VimmsRow(name, href, redBorder, extraText, cells, flagTitle, versionText) ==
  [name |-> name, href |-> href, redBorder |-> redBorder, extraText |-> extraText,
   cells |-> cells, flagTitle |-> flagTitle, versionText |-> versionText]

\* an anchor of the Myrient listing as cheerio presents it
Anchor(name, href, size) == [name |-> name, href |-> href, size |-> size]

\* sequences of at most n elements of S
SeqsUpTo(S, n) == UNION {[1..k -> S] : k \in 0..n}

LongTitles == <<"0", "1", "2", "3", "4", "5", "6", "7", "8", "9", "a", "b", "c", "d">>

\* a listing of n different titles, the last title first
LongVimmsPage(n) ==
  [i \in 1..n |->
     VimmsRow(<<"G", LongTitles[n + 1 - i]>>, <<"/", "v", "a", "u", "l", "t", "/">> \o <<LongTitles[n + 1 - i]>>,
              FALSE, <<>>, 3, <<"USA">>, <<"1", ".", "0">>)]

LongMyrientPage(n) ==
  [i \in 1..n |->
     Anchor(<<"G", "e", LongTitles[n + 1 - i]>>, <<LongTitles[n + 1 - i]>> \o <<".", "z", "i", "p">>, <<>>)]

VimmsRows ==
  {VimmsRow(<<"A">>, <<"/", "v", "a", "u", "l", "t", "/", "1">>, FALSE, <<>>, 3, <<"USA">>, <<"1", ".", "0">>),
   VimmsRow(<<"A">>, <<"/", "v", "a", "u", "l", "t", "/", "2">>, FALSE, <<>>, 3, <<"Japan">>, <<"1", ".", "1">>),
   VimmsRow(<<"A", " ", "(", "b", ")">>, <<"/", "v", "a", "u", "l", "t", "/", "3">>, FALSE, <<>>, 3, <<"USA">>, <<"1", ".", "0", "1">>),
   VimmsRow(<<"A", " ", "-", " ", "c">>, <<"/", "v", "a", "u", "l", "t", "/", "4">>, FALSE, <<>>, 3, <<"Brazil">>, <<"2", "0", "0", "2", "-", "0", "8", "-", "3", "1">>),
   VimmsRow(<<"B">>, <<"/", "v", "a", "u", "l", "t", "/", "5">>, FALSE, <<>>, 2, <<>>, <<>>),
   VimmsRow(<<"A">>, <<"/", "v", "a", "u", "l", "t", "/", "6">>, TRUE, <<"P", "r", "o", "t", "o", "t", "y", "p", "e">>, 3, <<"Australia">>, <<"2", ".", "0">>),
   VimmsRow(<<"A", "d", "v", "a", "n", "c", "e", "d", " ", "S", "e", "a", "r", "c", "h">>, <<"/", "v", "a", "u", "l", "t", "/", "?", "p", "=", "a", "d", "v", "a", "n", "c", "e", "d">>, FALSE, <<>>, 1, <<>>, <<>>)}

Anchors ==
  {Anchor(<<"D", "e", "m", "o">>, <<"d", ".", "z", "i", "p">>, <<>>),
   Anchor(<<"A", "d", "e", "m", "o", "l", "i", "t", "i", "o", "n">>, <<"a", ".", "z", "i", "p">>, <<"1 MB">>),
   Anchor(<<"x", "-", "B", "E", "T", "A">>, <<"b", ".", "G", "B", "A">>, <<>>),
   Anchor(<<"d", "e", "m", "o", "_", "1">>, <<"c", ".", "z", "i", "p">>, <<>>),
   Anchor(<<"M", "o", "d", "e">>, <<"m", ".", "i", "s", "o">>, <<>>),
   Anchor(<<"M", "o", "d", "e">>, <<"m", ".", "t", "x", "t">>, <<>>),
   Anchor(<<"Z", "z">>, <<"z", ".", "z", "i", "p">>, <<>>),
   Anchor(<<"P", "a", "r", "e", "n", "t">>, <<".", ".", "/">>, <<>>)}

\* the calls and answers of the specification of the two clients
SearchSystems == {<<"g", "b">>, <<"G", "b">>, <<"g", "b", "a">>, <<"G", "B", "A">>, <<"X", "b">>}

SearchTerms == {<<"e">>, <<"E", "!">>}

VimmsResponses ==
  {Response("reject", 0, FALSE, <<>>),
   Response("response", 500, FALSE, <<>>),
   Response("garbage", 200, FALSE, <<>>),
   Response("response", 404, FALSE, <<>>),
   Response("response", 200, TRUE, LongVimmsPage(1)),
   Response("response", 200, FALSE, LongVimmsPage(1))}

MyrientResponses ==
  {Response("reject", 0, FALSE, <<>>),
   Response("response", 404, FALSE, <<>>),
   Response("response", 200, FALSE, <<>>),
   Response("response", 200, FALSE, LongMyrientPage(1))}

\* the calls and answers of the specification of parsing
ParseSystems == {<<"g", "b">>}

ParseTerms == {<<"E">>}

\* the listings of 0 to MaxRows rows, and the listings of MaxResults to
\* MaxTitles different titles
VimmsPages ==
  {Response("response", 200, FALSE, rows) : rows \in SeqsUpTo(VimmsRows, MaxRows)}
    \cup {Response("response", 200, FALSE, LongVimmsPage(n)) : n \in MaxResults..MaxTitles}

MyrientPages ==
  {Response("response", 200, FALSE, rows) : rows \in SeqsUpTo(Anchors, MaxRows)}
    \cup {Response("response", 200, FALSE, LongMyrientPage(n)) : n \in MaxResults..MaxTitles}

(* ---------------------------- initial state ---------------------------- *)
DownloadInit ==
  /\ downloads = <<>>
  /\ maxConcurrentDownloads \in 1..MaxLimit
  /\ activeDownloads = {}
  /\ aborted = [j \in Ids |-> FALSE]
  /\ pc = [j \in Ids |-> "none"]
  /\ caller = [j \in Ids |-> "none"]
  /\ downloadedLength = [j \in Ids |-> 0]
  /\ totalLength = [j \in Ids |-> 0]
  /\ caught = [j \in Ids |-> NoError]
  /\ ret = NoCall

(* ---------------------------- actions ---------------------------------- *)
addDownload ==
  /\ Len(downloads) < MaxJobs
  /\ LET now == Now(downloads) IN
       downloads' = Append(downloads,
          [id |-> Len(downloads) + 1, status |-> "queued", progress |-> 0,
           startTime |-> now, error |-> NoError])
  /\ ret' = NoCall
  /\ UNCHANGED <<maxConcurrentDownloads, activeDownloads, aborted, pc, caller,
                 downloadedLength, totalLength, caught>>
  /\ UNCHANGED <<cvars, svars, hvars>>

processQueue ==
  /\ LET now == Now(downloads) IN
       Install(StartEach(Service,
          jobsToStart(downloads, activeDownloads, maxConcurrentDownloads), now))
  /\ ret' = NoCall
  /\ UNCHANGED maxConcurrentDownloads
  /\ UNCHANGED <<cvars, svars, hvars>>

\* startDownload called by a caller other than processQueue
startDownloadDirect(id) ==
  /\ id \in StoredIds(downloads)
  /\ pc[id] = "none" \/ id \in activeDownloads
  /\ LET st == startDownload(Service, id, "direct", Now(downloads))
     IN /\ Install(st)
        /\ ret' = IF st.thrown = NoError THEN NoCall ELSE st.thrown
  /\ UNCHANGED maxConcurrentDownloads
  /\ UNCHANGED <<cvars, svars, hvars>>

\* cancelDownload without the early return for an id that is not in flight
cancelDownloadUnguarded(id) ==
  /\ aborted' = [aborted EXCEPT ![id] = TRUE]
  /\ activeDownloads' = activeDownloads \ {id}
  /\ downloads' = updateDownload(downloads, id,
        [status |-> "failed", error |-> CancelledByUser])
  /\ ret' \in {"true", WriteError}
  /\ UNCHANGED <<maxConcurrentDownloads, pc, caller, downloadedLength,
                 totalLength, caught>>
  /\ UNCHANGED <<cvars, svars, hvars>>

cancelDownload(id) ==
  /\ IF id \notin activeDownloads
       THEN /\ ret' = "false"
            /\ UNCHANGED <<downloads, activeDownloads, aborted>>
       ELSE /\ aborted' = [aborted EXCEPT ![id] = TRUE]
            /\ activeDownloads' = activeDownloads \ {id}
            /\ downloads' = updateDownload(downloads, id,
                  [status |-> "failed", error |-> CancelledByUser])
            /\ ret' \in {"true", WriteError}
  /\ UNCHANGED <<maxConcurrentDownloads, pc, caller, downloadedLength,
                 totalLength, caught>>
  /\ UNCHANGED <<cvars, svars, hvars>>

\* QueueCommand.execute: sorts the array returned by getDownloads() in place
queueExecute ==
  /\ downloads' = SortByStartTimeDesc(downloads)
  /\ ret' = NoCall
  /\ UNCHANGED <<maxConcurrentDownloads, activeDownloads, aborted, pc, caller,
                 downloadedLength, totalLength, caught>>
  /\ UNCHANGED <<cvars, svars, hvars>>

(* ----- the startDownload task of job id, one action per await point ---- *)
\* The promise of startDownload rejects with err: processQueue attached a
\* .catch that logs it, any other caller receives it.
rejectsWith(who, err) == IF who = "processQueue" THEN NoCall ELSE err

\* The awaits before the stream exists: db.updateDownload(Downloading),
\* fs.ensureDir, axios(...).  Any of them rejects, or all return.
connectingTo(id, bytes) ==
  /\ pc[id] = "connecting"
  /\ \/ /\ ~aborted[id]
        /\ \E total \in {0, bytes} :
             Install([Service EXCEPT !.pc[id] = "streaming",
                                     !.totalLength[id] = total,
                                     !.downloadedLength[id] = 0])
     \/ /\ aborted[id]
        /\ Install(catchBlock(Service, id, Canceled))
     \/ \E err \in {WriteError, TransferError} :
          Install(catchBlock(Service, id, err))
  /\ ret' = NoCall
  /\ UNCHANGED maxConcurrentDownloads
  /\ UNCHANGED <<cvars, svars, hvars>>

connecting(id) == connectingTo(id, FileBytes)

\* response.data 'data' event of a file of bytes bytes
onDataOf(id, bytes) ==
  /\ pc[id] = "streaming"
  /\ ~aborted[id]
  /\ \E chunk \in 1..(bytes - downloadedLength[id]) :
       Install([Service EXCEPT
          !.downloadedLength[id] = @ + chunk,
          !.downloads = updateDownload(@, id,
             [progress |-> progressOf(downloadedLength[id] + chunk, totalLength[id])])])
  /\ ret' = NoCall
  /\ UNCHANGED maxConcurrentDownloads
  /\ UNCHANGED <<cvars, svars, hvars>>

onData(id) == onDataOf(id, FileBytes)

\* writer 'finish' after bytes bytes: the transfer promise resolves and the
\* Completed update starts
onFinishOf(id, bytes) ==
  /\ pc[id] = "streaming"
  /\ ~aborted[id]
  /\ downloadedLength[id] = bytes
  /\ Install([Service EXCEPT
        !.downloads = updateDownload(@, id, [status |-> "completed", progress |-> 100]),
        !.downloadedLength[id] = 0,
        !.totalLength[id] = 0,
        !.pc[id] = "completing"])
  /\ ret' = NoCall
  /\ UNCHANGED maxConcurrentDownloads
  /\ UNCHANGED <<cvars, svars, hvars>>

\* a Completed update that leaves the progress as the last chunk set it
onFinishKeepingProgress(id) ==
  /\ pc[id] = "streaming"
  /\ ~aborted[id]
  /\ downloadedLength[id] = FileBytes
  /\ Install([Service EXCEPT
        !.downloads = updateDownload(@, id, [status |-> "completed"]),
        !.downloadedLength[id] = 0,
        !.totalLength[id] = 0,
        !.pc[id] = "completing"])
  /\ ret' = NoCall
  /\ UNCHANGED maxConcurrentDownloads
  /\ UNCHANGED <<cvars, svars, hvars>>

\* writer 'finish' of a file of FileBytes bytes
onFinish(id) == onFinishOf(id, FileBytes)

\* writer or response 'error': the transfer promise rejects
onError(id) ==
  /\ pc[id] = "streaming"
  /\ Install(catchBlock(Service, id, IF aborted[id] THEN Canceled ELSE TransferError))
  /\ ret' = NoCall
  /\ UNCHANGED maxConcurrentDownloads
  /\ UNCHANGED <<cvars, svars, hvars>>

\* await db.updateDownload(Completed) returns or rejects
completing(id) ==
  /\ pc[id] = "completing"
  /\ \/ Install([Service EXCEPT !.activeDownloads = @ \ {id},
                                !.pc[id] = "done",
                                !.caller[id] = "none"])
     \/ Install(catchBlock(Service, id, WriteError))
  /\ ret' = NoCall
  /\ UNCHANGED maxConcurrentDownloads
  /\ UNCHANGED <<cvars, svars, hvars>>

\* await db.updateDownload(Failed) in the catch block returns or rejects
failing(id) ==
  /\ pc[id] = "failing"
  /\ \/ /\ Install([Service EXCEPT !.activeDownloads = @ \ {id},
                                   !.pc[id] = "done",
                                   !.caller[id] = "none",
                                   !.caught[id] = NoError])
        /\ ret' = rejectsWith(caller[id], caught[id])
     \/ /\ Install([Service EXCEPT !.pc[id] = "done",
                                   !.caller[id] = "none",
                                   !.caught[id] = NoError])
        /\ ret' = rejectsWith(caller[id], WriteError)
  /\ UNCHANGED maxConcurrentDownloads
  /\ UNCHANGED <<cvars, svars, hvars>>

(* ---------------------------- CHD conversion --------------------------- *)
\* File paths are POSIX paths without "." and ".." segments and without
\* doubled slashes, as path.join returns them.

\* the path without the slashes at its end
RECURSIVE StripSlashes(_)
StripSlashes(p) ==
  IF Len(p) > 1 /\ p[Len(p)] = "/" THEN StripSlashes(SubSeq(p, 1, Len(p) - 1)) ELSE p

\* path.basename(p)
basename(p) ==
  LET q == StripSlashes(p)
  IN IF q = <<"/">> THEN <<>> ELSE SubSeq(q, LastIndexOf(q, "/") + 1, Len(q))

\* path.extname(p): from the last dot of the last segment; empty when the
\* segment has no dot, only a leading one, or is ".."
extname(p) ==
  LET b == basename(p)
      d == LastIndexOf(b, ".")
  IN IF d <= 1 \/ b = <<".", ".">> THEN <<>> ELSE SubSeq(b, d, Len(b))

\* path.basename(p, ext)
basenameWithout(p, ext) ==
  LET b == basename(p)
  IN IF ext # <<>> /\ b # ext /\ EndsWith(b, ext)
       THEN SubSeq(b, 1, Len(b) - Len(ext))
       ELSE b

\* path.dirname(p)
dirname(p) ==
  LET q == StripSlashes(p)
      s == LastIndexOf(q, "/")
  IN IF s = 0 THEN <<".">>
     ELSE IF s = 1 THEN <<"/">>
     ELSE StripSlashes(SubSeq(q, 1, s - 1))

\* path.join(dir, name) for a name of one segment
join(dir, name) ==
  IF dir = <<".">> THEN name
  ELSE IF dir[Len(dir)] = "/" THEN dir \o name
  ELSE dir \o <<"/">> \o name

CD_BASED_SYSTEMS == <<<<"p", "s", "x">>, <<"p", "s", "2">>, <<"s", "a", "t", "u", "r", "n">>, <<"d", "r", "e", "a", "m", "c", "a", "s", "t">>, <<"s", "e", "g", "a", "c", "d">>>>

CD_EXTENSIONS == <<<<".", "b", "i", "n">>, <<".", "i", "s", "o">>, <<".", "i", "m", "g">>, <<".", "c", "u", "e">>>>

\* Array.prototype.includes
ArrayIncludes(array, x) == \E i \in DOMAIN array : array[i] = x

isCDBasedSystem(systemName) == ArrayIncludes(CD_BASED_SYSTEMS, ToLower(systemName))

\* a check that looks at the extension only
shouldConvertToCHDAnySystem(filePath, systemName) ==
  ArrayIncludes(CD_EXTENSIONS, ToLower(extname(filePath)))

shouldConvertToCHD(filePath, systemName) ==
  IF ~isCDBasedSystem(systemName)
    THEN FALSE
    ELSE LET ext == ToLower(extname(filePath))
         IN ArrayIncludes(CD_EXTENSIONS, ext)

NoShouldCall == [filePath |-> <<>>, systemName |-> <<>>, ret |-> <<>>]

\* a call of shouldConvertToCHD and what it returned
shouldConvertToCHDCall(filePath, systemName) ==
  /\ shouldCall' = [filePath |-> filePath, systemName |-> systemName,
                    ret |-> <<shouldConvertToCHD(filePath, systemName)>>]
  /\ UNCHANGED <<disk, conversion, cleanupCall, chdCalls>>
  /\ UNCHANGED <<dvars, cvars, svars>>

\* the file paths and system names that callers ask about
ShouldPaths ==
  {<<"g", ".", "b", "i", "n">>, <<"d", "/", "G", ".", "B", "I", "N">>, <<"g", ".", "i", "s", "o">>, <<"g", ".", "I", "m", "g">>, <<"d", ".", "x", "/", "g", ".", "c", "u", "e">>, <<"g", ".", "c", "h", "d">>, <<"g", ".", "z", "i", "p">>,
   <<"g", ".", "b", "i", "n", ".", "z", "i", "p">>, <<"g", ".", "t", "a", "r", ".", "i", "s", "o">>, <<"g", "b", "i", "n">>, <<"d", ".", "b", "i", "n", "/", "g">>, <<".", "b", "i", "n">>, <<"d", "/", ".", "i", "s", "o">>, <<"g", ".">>, <<"g", ".", "c", "u", "e", "s">>}

ShouldSystems ==
  {<<"p", "s", "x">>, <<"P", "S", "X">>, <<"P", "s", "2">>, <<"s", "a", "t", "u", "r", "n">>, <<"d", "r", "e", "a", "m", "c", "a", "s", "t">>, <<"S", "e", "g", "a", "C", "D">>, <<"p", "s", "1">>, <<"g", "b">>,
   <<"p", "s", "x", "x">>, <<"s", "x">>, <<>>}

\* a CHDConversionResult: an absent field is <<>>
ChdFailure(error) ==
  [success |-> FALSE, outputPath |-> <<>>, error |-> <<error>>,
   originalSize |-> <<>>, compressedSize |-> <<>>, compressionRatio |-> <<>>]

\* the share of the original size that is left, not the share that is saved
compressionRatioOfKept(originalSize, compressedSize) ==
  IF originalSize = 0
    THEN IF compressedSize = 0 THEN "NaN" ELSE "-Infinity"
    ELSE MathRound(100 * compressedSize, originalSize)

\* Math.round((1 - compressedSize / originalSize) * 100): not a number for
\* 0 / 0, minus infinity for a division of a positive size by 0
compressionRatioOf(originalSize, compressedSize) ==
  IF originalSize = 0
    THEN IF compressedSize = 0 THEN "NaN" ELSE "-Infinity"
    ELSE MathRound(100 * (originalSize - compressedSize), originalSize)

ChdSuccess(outputPath, originalSize, compressedSize) ==
  [success |-> TRUE, outputPath |-> <<outputPath>>, error |-> <<>>,
   originalSize |-> <<originalSize>>, compressedSize |-> <<compressedSize>>,
   compressionRatio |-> <<compressionRatioOf(originalSize, compressedSize)>>]

InputNotFound(inputPath) == <<"I", "n", "p", "u", "t", " ", "f", "i", "l", "e", " ", "n", "o", "t", " ", "f", "o", "u", "n", "d", ":", " ">> \o inputPath

ChdmanNotFound == <<"c", "h", "d", "m", "a", "n", " ", "t", "o", "o", "l", " ", "n", "o", "t", " ", "f", "o", "u", "n", "d", ".", " ", "P", "l", "e", "a", "s", "e", " ", "i", "n", "s", "t", "a", "l", "l", " ", "M", "A", "M", "E", " ", "t", "o", "o", "l", "s", " ", "f", "o", "r", " ", "C", "H", "D", " ", "c", "o", "n", "v", "e", "r", "s", "i", "o", "n", ".">>

ConversionFailed(message) == <<"C", "H", "D", " ", "c", "o", "n", "v", "e", "r", "s", "i", "o", "n", " ", "f", "a", "i", "l", "e", "d", ":", " ">> \o message

\* String(code) for an exit code of one digit
DigitChars == <<"0", "1", "2", "3", "4", "5", "6", "7", "8", "9">>

ExitedWithCode(code) ==
  <<"c", "h", "d", "m", "a", "n", " ", "e", "x", "i", "t", "e", "d", " ", "w", "i", "t", "h", " ", "c", "o", "d", "e", " ">> \o <<DigitChars[code + 1]>> \o <<".", " ", "E", "r", "r", "o", "r", ":", " ">>

FailedToSpawn(message) == <<"F", "a", "i", "l", "e", "d", " ", "t", "o", " ", "s", "p", "a", "w", "n", " ", "c", "h", "d", "m", "a", "n", ":", " ">> \o message

\* the messages of the errors of the operating system
ENOENT == <<"E", "N", "O", "E", "N", "T">>

EACCES == <<"E", "A", "C", "C", "E", "S">>

\* the command lines of the two child processes
ProbeCommand == <<<<"c", "h", "d", "m", "a", "n">>, <<"-", "-", "v", "e", "r", "s", "i", "o", "n">>>>

getCHDManArgs(inputPath, outputPath, extension) ==
  LET baseArgs == <<<<"c", "r", "e", "a", "t", "e", "c", "d">>, <<"-", "i">>, inputPath, <<"-", "o">>, outputPath>>
  IN IF extension \in {<<".", "b", "i", "n">>, <<".", "i", "s", "o">>, <<".", "i", "m", "g">>} THEN baseArgs \o <<<<"-", "f">>>> ELSE baseArgs

ConvertCommand(inputPath, outputPath) ==
  <<<<"c", "h", "d", "m", "a", "n">>>> \o getCHDManArgs(inputPath, outputPath, ToLower(extname(inputPath)))

\* outputDir || inputDir, then path.join(outputDirectory, baseName + '.chd')
outputPathOf(inputPath, outputDir) ==
  LET inputDir == dirname(inputPath)
      outputDirectory == IF outputDir # <<>> /\ outputDir[1] # <<>> THEN outputDir[1] ELSE inputDir
      baseName == basenameWithout(inputPath, extname(inputPath))
  IN join(outputDirectory, baseName \o <<".", "c", "h", "d">>)

\* no convertToCHD call has been made
NoConversion ==
  [pc |-> "idle", inputPath |-> <<>>, outputDir |-> <<>>, inputFound |-> <<>>,
   originalSize |-> <<>>, spawned |-> <<>>, probe |-> "none", conversion |-> "none",
   thrown |-> "none", ret |-> <<>>]

\* how a child process ended
ExitOf(code) == IF code = 0 THEN "exit 0" ELSE "exit non-zero"

\* the call returns result
ChdReturn(call, result) == [call EXCEPT !.pc = "done", !.ret = <<result>>]

\* the catch block of convertToCHD
ChdCatch(call, message) == ChdReturn(call, ChdFailure(ConversionFailed(message)))

\* convertToCHD up to the probe: fs.pathExists, then spawn('chdman', ['--version'])
convertToCHDStart(inputPath, outputDir) ==
  LET call == [NoConversion EXCEPT !.inputPath = inputPath, !.outputDir = outputDir,
                                   !.inputFound = <<inputPath \in DOMAIN disk>>]
  IN IF inputPath \notin DOMAIN disk
       THEN ChdReturn(call, ChdFailure(InputNotFound(inputPath)))
       ELSE [call EXCEPT !.pc = "probe", !.spawned = <<ProbeCommand>>]

convertToCHD(inputPath, outputDir) ==
  /\ conversion.pc \in {"idle", "done"}
  /\ chdCalls < MaxChdCalls
  /\ chdCalls' = chdCalls + 1
  /\ conversion' = convertToCHDStart(inputPath, outputDir)
  /\ UNCHANGED <<disk, shouldCall, cleanupCall>>
  /\ UNCHANGED <<dvars, cvars, svars>>

\* a probe whose exit code is not looked at
checkCHDManAvailableAnyCode(code) == TRUE

\* checkCHDManAvailable, 'close': resolve(code === 0)
checkCHDManAvailable(code) == code = 0

\* the probe has closed with code; on 0 the call goes on to fs.ensureDir
probeClose(code) ==
  /\ conversion.pc = "probe"
  /\ LET call == [conversion EXCEPT !.probe = ExitOf(code)]
     IN conversion' =
          IF checkCHDManAvailable(code)
            THEN [call EXCEPT !.pc = "prepare"]
            ELSE ChdReturn(call, ChdFailure(ChdmanNotFound))
  /\ UNCHANGED <<disk, shouldCall, cleanupCall, chdCalls>>
  /\ UNCHANGED <<dvars, cvars, svars>>

\* checkCHDManAvailable, 'error': the probe could not be spawned
probeError ==
  /\ conversion.pc = "probe"
  /\ conversion' = ChdReturn([conversion EXCEPT !.probe = "spawn error"],
                             ChdFailure(ChdmanNotFound))
  /\ UNCHANGED <<disk, shouldCall, cleanupCall, chdCalls>>
  /\ UNCHANGED <<dvars, cvars, svars>>

\* fs.ensureDir and fs.stat of the input, then the spawn of the conversion;
\* either file system call may throw
prepare(dirOk) ==
  /\ conversion.pc = "prepare"
  /\ conversion' =
       IF ~dirOk THEN ChdCatch(conversion, EACCES)
       ELSE IF conversion.inputPath \notin DOMAIN disk THEN ChdCatch(conversion, ENOENT)
       ELSE [conversion EXCEPT
               !.pc = "convert",
               !.originalSize = <<disk[conversion.inputPath]>>,
               !.spawned = Append(@, ConvertCommand(conversion.inputPath,
                              outputPathOf(conversion.inputPath, conversion.outputDir)))]
  /\ UNCHANGED <<disk, shouldCall, cleanupCall, chdCalls>>
  /\ UNCHANGED <<dvars, cvars, svars>>

\* runCHDConversion, 'close': success when code === 0
conversionSucceeded(code) == code = 0

\* the conversion has closed with code, having written written bytes of
\* output (<<>>: no output file); on 0 the call reads the size of the output
conversionClose(code, written) ==
  /\ conversion.pc = "convert"
  /\ LET outputPath == outputPathOf(conversion.inputPath, conversion.outputDir)
         files == IF written = <<>> THEN disk
                  ELSE [p \in DOMAIN disk \cup {outputPath} |->
                          IF p = outputPath THEN written[1] ELSE disk[p]]
         call == [conversion EXCEPT !.conversion = ExitOf(code)]
     IN /\ disk' = files
        /\ conversion' =
             IF ~conversionSucceeded(code)
               THEN ChdReturn(call, ChdFailure(ExitedWithCode(code)))
             ELSE IF outputPath \notin DOMAIN files
               THEN ChdCatch(call, ENOENT)
             ELSE ChdReturn(call, ChdSuccess(outputPath, conversion.originalSize[1],
                                             files[outputPath]))
  /\ UNCHANGED <<shouldCall, cleanupCall, chdCalls>>
  /\ UNCHANGED <<dvars, cvars, svars>>

\* runCHDConversion, 'error': the conversion could not be spawned
conversionError ==
  /\ conversion.pc = "convert"
  /\ conversion' = ChdReturn([conversion EXCEPT !.conversion = "spawn error"],
                             ChdFailure(FailedToSpawn(ENOENT)))
  /\ UNCHANGED <<disk, shouldCall, cleanupCall, chdCalls>>
  /\ UNCHANGED <<dvars, cvars, svars>>

\* the files without the one at path p; fs.remove of a missing path does nothing
RemoveFile(files, p) == [q \in DOMAIN files \ {p} |-> files[q]]

\* originalPath.replace(/\.bin$/i, '.cue')
cuePathOf(originalPath) ==
  IF EndsWith(ToLower(originalPath), <<".", "b", "i", "n">>)
    THEN SubSeq(originalPath, 1, Len(originalPath) - 4) \o <<".", "c", "u", "e">>
    ELSE originalPath

\* the error of an fs.remove that fails
RemoveFailed == "remove failed"

\* a catch block that throws the error again
cleanupCatchRethrow(error) == error

\* the catch block of cleanupOriginalFiles: console.warn, nothing thrown
cleanupCatch(error) == "none"

\* cleanupOriginalFiles on files; fails names the fs.remove call that throws
cleanupEffect(files, originalPath, keepOriginal, fails) ==
  IF keepOriginal THEN [files |-> files, thrown |-> "none"]
  ELSE IF fails = "original" THEN [files |-> files, thrown |-> cleanupCatch(RemoveFailed)]
  ELSE LET removed == RemoveFile(files, originalPath)
           cuePath == cuePathOf(originalPath)
       IN IF ToLower(extname(originalPath)) = <<".", "b", "i", "n">> /\ cuePath \in DOMAIN removed
            THEN IF fails = "cue"
                   THEN [files |-> removed, thrown |-> cleanupCatch(RemoveFailed)]
                   ELSE [files |-> RemoveFile(removed, cuePath), thrown |-> "none"]
            ELSE [files |-> removed, thrown |-> "none"]

NoCleanupCall ==
  [originalPath |-> <<>>, keepOriginal |-> FALSE, fails |-> "none", thrown |-> "none",
   returned |-> FALSE]

cleanupOriginalFiles(originalPath, keepOriginal, fails) ==
  LET effect == cleanupEffect(disk, originalPath, keepOriginal, fails)
  IN /\ chdCalls < MaxChdCalls
     /\ chdCalls' = chdCalls + 1
     /\ disk' = effect.files
     /\ cleanupCall' = [originalPath |-> originalPath, keepOriginal |-> keepOriginal,
                        fails |-> fails, thrown |-> effect.thrown,
                        returned |-> effect.thrown = "none"]
     /\ UNCHANGED <<conversion, shouldCall>>
     /\ UNCHANGED <<dvars, cvars, svars>>

\* the files of the download directory when the converter is first used
InitialDisks ==
  {(<<"d", "/", "g", ".", "b", "i", "n">> :> 2) @@ (<<"d", "/", "g", ".", "c", "u", "e">> :> 1) @@ (<<"d", "/", "h", ".", "i", "s", "o">> :> 0),
   (<<"d", "/", "G", ".", "B", "I", "N">> :> 2) @@ (<<"d", "/", "G", ".", "C", "U", "E">> :> 1) @@ (<<"d", "/", "G", ".", "c", "u", "e">> :> 1),
   (<<"d", "/", "g", ".", "b", "i", "n">> :> 1) @@ (<<"d", "/", "h", ".", "i", "s", "o">> :> 2)}

\* no call of the converter has been made
ChdCallsInit ==
  /\ conversion = NoConversion
  /\ shouldCall = NoShouldCall
  /\ cleanupCall = NoCleanupCall
  /\ chdCalls = 0

\* the bot starts on an empty download directory
ChdInit == disk = <<>> /\ ChdCallsInit

\* the arguments of the callers and the outcomes of the environment
ConvertPaths == {<<"d", "/", "g", ".", "b", "i", "n">>, <<"d", "/", "h", ".", "i", "s", "o">>, <<"d", "/", "G", ".", "B", "I", "N">>}

OutputDirs == {<<>>, <<<<"o">>>>}

ExitCodes == {0, 1}

WrittenSizes == {<<>>} \cup {<<n>> : n \in 0..MaxChdBytes}

CleanupPaths == {<<"d", "/", "g", ".", "b", "i", "n">>, <<"d", "/", "G", ".", "B", "I", "N">>, <<"d", "/", "h", ".", "i", "s", "o">>, <<"d", "/", "g", ".", "c", "h", "d">>}

RemoveFailures == {"none", "original", "cue"}

(* ------------------------- the games of the jobs ----------------------- *)
\* DownloadService.systemMapping: the folder names of the ES-DE systems
systemMapping ==
     (<<"N", "o", "-", "I", "n", "t", "r", "o", "/", "N", "i", "n", "t", "e", "n", "d", "o", " ", "-", " ", "G", "a", "m", "e", " ", "B", "o", "y">> :> <<"g", "b">>)
  @@ (<<"N", "o", "-", "I", "n", "t", "r", "o", "/", "N", "i", "n", "t", "e", "n", "d", "o", " ", "-", " ", "G", "a", "m", "e", " ", "B", "o", "y", " ", "C", "o", "l", "o", "r">> :> <<"g", "b", "c">>)
  @@ (<<"N", "o", "-", "I", "n", "t", "r", "o", "/", "N", "i", "n", "t", "e", "n", "d", "o", " ", "-", " ", "G", "a", "m", "e", " ", "B", "o", "y", " ", "A", "d", "v", "a", "n", "c", "e">> :> <<"g", "b", "a">>)
  @@ (<<"N", "o", "-", "I", "n", "t", "r", "o", "/", "N", "i", "n", "t", "e", "n", "d", "o", " ", "-", " ", "N", "i", "n", "t", "e", "n", "d", "o", " ", "E", "n", "t", "e", "r", "t", "a", "i", "n", "m", "e", "n", "t", " ", "S", "y", "s", "t", "e", "m">> :> <<"n", "e", "s">>)
  @@ (<<"N", "o", "-", "I", "n", "t", "r", "o", "/", "N", "i", "n", "t", "e", "n", "d", "o", " ", "-", " ", "S", "u", "p", "e", "r", " ", "N", "i", "n", "t", "e", "n", "d", "o", " ", "E", "n", "t", "e", "r", "t", "a", "i", "n", "m", "e", "n", "t", " ", "S", "y", "s", "t", "e", "m">> :> <<"s", "n", "e", "s">>)
  @@ (<<"N", "o", "-", "I", "n", "t", "r", "o", "/", "N", "i", "n", "t", "e", "n", "d", "o", " ", "-", " ", "N", "i", "n", "t", "e", "n", "d", "o", " ", "6", "4">> :> <<"n", "6", "4">>)
  @@ (<<"N", "o", "-", "I", "n", "t", "r", "o", "/", "S", "e", "g", "a", " ", "-", " ", "M", "e", "g", "a", " ", "D", "r", "i", "v", "e", " ", "-", " ", "G", "e", "n", "e", "s", "i", "s">> :> <<"m", "e", "g", "a", "d", "r", "i", "v", "e">>)
  @@ (<<"N", "o", "-", "I", "n", "t", "r", "o", "/", "S", "e", "g", "a", " ", "-", " ", "M", "a", "s", "t", "e", "r", " ", "S", "y", "s", "t", "e", "m", " ", "-", " ", "M", "a", "r", "k", " ", "I", "I", "I">> :> <<"m", "a", "s", "t", "e", "r", "s", "y", "s", "t", "e", "m">>)
  @@ (<<"N", "o", "-", "I", "n", "t", "r", "o", "/", "S", "e", "g", "a", " ", "-", " ", "S", "a", "t", "u", "r", "n">> :> <<"s", "a", "t", "u", "r", "n">>)
  @@ (<<"N", "o", "-", "I", "n", "t", "r", "o", "/", "S", "e", "g", "a", " ", "-", " ", "D", "r", "e", "a", "m", "c", "a", "s", "t">> :> <<"d", "r", "e", "a", "m", "c", "a", "s", "t">>)
  @@ (<<"R", "e", "d", "u", "m", "p", "/", "S", "o", "n", "y", " ", "-", " ", "P", "l", "a", "y", "S", "t", "a", "t", "i", "o", "n">> :> <<"p", "s", "x">>)
  @@ (<<"R", "e", "d", "u", "m", "p", "/", "S", "o", "n", "y", " ", "-", " ", "P", "l", "a", "y", "S", "t", "a", "t", "i", "o", "n", " ", "2">> :> <<"p", "s", "2">>)
  @@ (<<"R", "e", "d", "u", "m", "p", "/", "S", "o", "n", "y", " ", "-", " ", "P", "l", "a", "y", "S", "t", "a", "t", "i", "o", "n", " ", "P", "o", "r", "t", "a", "b", "l", "e">> :> <<"p", "s", "p">>)

\* systemMapping[console] || console.toLowerCase().replace(/[^a-z0-9]/g, '')
systemNameOf(console) ==
  IF console \in DOMAIN systemMapping
    THEN systemMapping[console]
    ELSE SelectSeq(ToLower(console), LAMBDA c : c \in LowerAlnum)

\* the percent-encoding of the blanks of a URL path
RECURSIVE PercentEncode(_)
PercentEncode(s) ==
  IF s = <<>> THEN <<>>
  ELSE (IF Head(s) = " " THEN <<"%", "2", "0">> ELSE <<Head(s)>>) \o PercentEncode(Tail(s))

\* new URL(url).pathname of an absolute URL
pathnameOf(url) ==
  LET rest == SubSeq(url, IndexOf(url, <<":", "/", "/">>) + 3, Len(url))
      slash == IndexOf(rest, <<"/">>)
  IN IF slash = 0 THEN <<"/">> ELSE PercentEncode(SubSeq(rest, slash, Len(rest)))

\* path.basename(new URL(job.game.url).pathname)
fileNameOf(url) == basename(pathnameOf(url))

\* settings.downloadPath as DatabaseService.init sets it
downloadPath == <<".", "/", "d", "o", "w", "n", "l", "o", "a", "d", "s">>

\* path.join(settings.downloadPath, 'roms', systemName, fileName), which
\* drops the leading "./"
filePathOf(game) ==
  SubSeq(downloadPath, 3, Len(downloadPath)) \o <<"/", "r", "o", "m", "s", "/">> \o systemNameOf(game.console)
    \o <<"/">> \o fileNameOf(game.url)

\* the games that the users ask for, in turn: a disc image of a PlayStation
\* game of the flat listing, a Game Boy game of the same listing, and the
\* disc image once more (neither command looks for a job of the same game)
PlayStationGame ==
  [console |-> <<"R", "e", "d", "u", "m", "p", "/", "S", "o", "n", "y", " ", "-", " ", "P", "l", "a", "y", "S", "t", "a", "t", "i", "o", "n">>,
   url |-> MYRIENT_BASE_URL \o <<"/", "f", "i", "l", "e", "s", "/", "R", "e", "d", "u", "m", "p", "/", "S", "o", "n", "y", " ", "-", " ", "P", "l", "a", "y", "S", "t", "a", "t", "i", "o", "n", "/", "g", ".", "b", "i", "n">>]

GameBoyGame ==
  [console |-> <<"N", "o", "-", "I", "n", "t", "r", "o", "/", "N", "i", "n", "t", "e", "n", "d", "o", " ", "-", " ", "G", "a", "m", "e", " ", "B", "o", "y">>,
   url |-> MYRIENT_BASE_URL \o <<"/", "f", "i", "l", "e", "s", "/", "N", "o", "-", "I", "n", "t", "r", "o", "/", "N", "i", "n", "t", "e", "n", "d", "o", " ", "-", " ", "G", "a", "m", "e", " ", "B", "o", "y", "/", "g", ".", "g", "b">>]

RequestedGames == <<PlayStationGame, GameBoyGame, PlayStationGame>>

\* job.game of the job with the given id
GameOf(id) == RequestedGames[((id - 1) % Len(RequestedGames)) + 1]

Init == DownloadInit /\ CacheInit /\ SearchInit /\ ChdInit

\* The bot: commands, the 30-second timer and the transfers
Next ==
  \/ addDownload
  \/ processQueue
  \/ queueExecute
  \/ \E id \in Ids : cancelDownload(id)
  \/ \E id \in Ids : connecting(id)
  \/ \E id \in Ids : onData(id)
  \/ \E id \in Ids : onFinish(id)
  \/ \E id \in Ids : onError(id)
  \/ \E id \in Ids : completing(id)
  \/ \E id \in Ids : failing(id)

Spec == Init /\ [][Next]_vars

\* A caller that also drives startDownload itself, on a store of at most
\* MaxApiJobs jobs
NextApi ==
  \/ Len(downloads) < MaxApiJobs /\ addDownload
  \/ processQueue
  \/ queueExecute
  \/ \E id \in Ids : startDownloadDirect(id)
  \/ \E id \in Ids : cancelDownload(id)
  \/ \E id \in Ids : connecting(id)
  \/ \E id \in Ids : onData(id)
  \/ \E id \in Ids : onFinish(id)
  \/ \E id \in Ids : onError(id)
  \/ \E id \in Ids : completing(id)
  \/ \E id \in Ids : failing(id)

SpecApi == Init /\ [][NextApi]_vars

\* The transfers of at most MaxTransferJobs jobs, of files of TransferBytes bytes
NextTransfer ==
  \/ Len(downloads) < MaxTransferJobs /\ addDownload
  \/ processQueue
  \/ \E id \in Ids : cancelDownload(id)
  \/ \E id \in Ids : connectingTo(id, TransferBytes)
  \/ \E id \in Ids : onDataOf(id, TransferBytes)
  \/ \E id \in Ids : onFinishOf(id, TransferBytes)
  \/ \E id \in Ids : onError(id)
  \/ \E id \in Ids : completing(id)
  \/ \E id \in Ids : failing(id)

SpecTransfer == Init /\ [][NextTransfer]_vars

\* await db.updateDownload(Completed) returns
completingWritten(id) == completing(id) /\ pc'[id] = "done"

\* await db.updateDownload(Failed) in the catch block returns
failingWritten(id) == failing(id) /\ id \notin activeDownloads'

\* the events that end the transfer of job id
transferring(id) == onData(id) \/ onFinish(id) \/ onError(id)

\* The bot with at most MaxLiveJobs jobs, on a Job Store whose writes succeed
NextLive ==
  \/ Len(downloads) < MaxLiveJobs /\ addDownload
  \/ processQueue
  \/ queueExecute
  \/ \E id \in Ids : cancelDownload(id)
  \/ \E id \in Ids : connecting(id)
  \/ \E id \in Ids : transferring(id)
  \/ \E id \in Ids : completingWritten(id)
  \/ \E id \in Ids : failingWritten(id)

\* setInterval calls processQueue every 30 seconds; every await of a
\* startDownload task returns or rejects, and every transfer ends
Fairness ==
  /\ WF_vars(processQueue)
  /\ \A id \in Ids :
       /\ WF_vars(connecting(id))
       /\ WF_vars(transferring(id))
       /\ WF_vars(completingWritten(id))
       /\ WF_vars(failingWritten(id))

SpecLive == Init /\ [][NextLive]_vars /\ Fairness

\* The search clients' use of the cache
NextCache ==
  \/ cacheTick
  \/ \E t \in Triples, r \in Results, ttl \in TTLArgs : cacheSet(t, r, ttl)
  \/ \E t \in Triples : cacheGet(t)
  \/ \E enumerable \in BOOLEAN, listed \in Listings(cacheFiles),
        unreadable \in SUBSET DOMAIN cacheFiles, locked \in DOMAIN cacheFiles \cup {NoKey} :
        cleanup(enumerable, listed, unreadable, locked)

SpecCache == Init /\ [][NextCache]_vars

\* The two search clients, the archives and the clock of the cache
NextSearch ==
  \/ cacheTick
  \/ \E s \in SearchSystems, q \in SearchTerms : vimmsSearchGames(s, q)
  \/ \E resp \in VimmsResponses : vimmsResponse(resp)
  \/ \E s \in SearchSystems, q \in SearchTerms : myrientSearchGames(s, q)
  \/ \E resp \in MyrientResponses : myrientResponse(resp)

\* the bot with the largest limit of the settings
InitDefault == Init /\ maxConcurrentDownloads = MaxLimit

SpecSearch == InitDefault /\ [][NextSearch]_vars

\* One searchGames call of either client on a listing of up to MaxRows rows
NextParse ==
  \/ \E s \in ParseSystems, q \in ParseTerms : searches = 0 /\ vimmsSearchGames(s, q)
  \/ \E resp \in VimmsPages : vimmsResponse(resp)
  \/ \E s \in ParseSystems, q \in ParseTerms : searches = 0 /\ myrientSearchGames(s, q)
  \/ \E resp \in MyrientPages : myrientResponse(resp)

SpecParse == InitDefault /\ [][NextParse]_vars

\* the system ids that the consoleMapping of both search clients holds and
\* that the users choose from
MappedSystems ==
  {<<"g", "b">>,
   <<"g", "b", "c">>,
   <<"g", "b", "a">>,
   <<"n", "e", "s">>,
   <<"s", "n", "e", "s">>,
   <<"n", "6", "4">>,
   <<"g", "e", "n", "e", "s", "i", "s">>,
   <<"m", "e", "g", "a", "d", "r", "i", "v", "e">>,
   <<"m", "a", "s", "t", "e", "r", "s", "y", "s", "t", "e", "m">>,
   <<"s", "a", "t", "u", "r", "n">>,
   <<"d", "r", "e", "a", "m", "c", "a", "s", "t">>,
   <<"p", "s", "x">>,
   <<"p", "s", "1">>}

FolderTerms == {<<"e">>}

\* Searches of both clients for the systems that both of them map
NextFolders ==
  \/ \E s \in MappedSystems, q \in FolderTerms : vimmsSearchGames(s, q)
  \/ \E resp \in VimmsResponses : vimmsResponse(resp)
  \/ \E s \in MappedSystems, q \in FolderTerms : myrientSearchGames(s, q)
  \/ \E resp \in MyrientResponses : myrientResponse(resp)

SpecFolders == InitDefault /\ [][NextFolders]_vars

\* Callers that ask whether a downloaded file is to be converted
NextShould ==
  \E filePath \in ShouldPaths, systemName \in ShouldSystems :
     shouldConvertToCHDCall(filePath, systemName)

SpecShould == InitDefault /\ [][NextShould]_vars

\* The converter, the chdman processes and the file system
NextChd ==
  \/ \E inputPath \in ConvertPaths, outputDir \in OutputDirs : convertToCHD(inputPath, outputDir)
  \/ \E code \in ExitCodes : probeClose(code)
  \/ probeError
  \/ \E dirOk \in BOOLEAN : prepare(dirOk)
  \/ \E code \in ExitCodes, written \in WrittenSizes : conversionClose(code, written)
  \/ conversionError
  \/ \E originalPath \in CleanupPaths, keepOriginal \in BOOLEAN, fails \in RemoveFailures :
        cleanupOriginalFiles(originalPath, keepOriginal, fails)

\* the converter on a download directory that holds files
InitConverter ==
  /\ DownloadInit /\ maxConcurrentDownloads = MaxLimit
  /\ CacheInit /\ SearchInit
  /\ disk \in InitialDisks /\ ChdCallsInit

SpecChd == InitConverter /\ [][NextChd]_vars

(* ======================================================================= *)
(*                               Properties                                *)
(* ======================================================================= *)
Min(a, b) == IF a < b THEN a ELSE b

Max(a, b) == IF a > b THEN a ELSE b

QueuedIds == SeqIds(getQueuedDownloads(downloads))

\* the ids whose startDownload call passed the in-flight check in this step
StartedNow == activeDownloads' \ activeDownloads

(* C1: in every reachable state of the bot (addDownload, processQueue,     *)
(* transfer events, cancelDownload, the queue view) the number of jobs     *)
(* whose status is Downloading is at most settings.maxConcurrentDownloads. *)
C1_ConcurrencyCeiling ==
  Len(getActiveDownloads(downloads)) <= maxConcurrentDownloads

\* the ceiling is reached with more than one transfer while a job waits
C1_Witness ==
  /\ maxConcurrentDownloads = 2
  /\ Len(getActiveDownloads(downloads)) = 2
  /\ QueuedIds # {}

(* C2: a processQueue call made with k ids in flight and q Queued jobs     *)
(* starts exactly min(max(0, limit - k), q) of the Queued jobs, marks them *)
(* Downloading, and leaves every other job as it was; with k >= limit it   *)
(* changes nothing.                                                        *)
C2_ProcessQueueStarts ==
  [][processQueue =>
       LET k == Cardinality(activeDownloads)
           q == Len(getQueuedDownloads(downloads))
       IN /\ Cardinality(StartedNow) = Min(Max(0, maxConcurrentDownloads - k), q)
          /\ StartedNow \subseteq QueuedIds
          /\ activeDownloads \subseteq activeDownloads'
          /\ \A id \in StartedNow :
               /\ JobOf(downloads', id).status = "downloading"
               /\ pc'[id] = "connecting"
          /\ \A i \in DOMAIN downloads :
               downloads[i].id \notin StartedNow => downloads'[i] = downloads[i]
          /\ k >= maxConcurrentDownloads =>
               UNCHANGED <<downloads, activeDownloads, pc, aborted>>]_vars

\* one processQueue call has just started two of three queued jobs
C2_Witness ==
  /\ maxConcurrentDownloads = 2
  /\ Len(downloads) = 3
  /\ Cardinality(activeDownloads) = 2
  /\ \A id \in activeDownloads : pc[id] = "connecting" /\ ~aborted[id]
  /\ Cardinality(QueuedIds) = 1

(* C3: processQueue starts Queued jobs in insertion order: it never starts *)
(* a Queued job B while leaving Queued a job A that was added before B     *)
(* (ids are handed out in insertion order).                                *)
C3_InsertionOrder ==
  [][processQueue =>
       \A a, b \in QueuedIds :
          a < b => ~(b \in StartedNow /\ a \notin StartedNow)]_vars

(* C4: after cancelDownload(id) on an in-flight job, once the aborted      *)
(* transfer task has run its failure handler for the abort, the job is     *)
(* stored as Failed with the error "Cancelled by user".                    *)
C4_CancelMessageKept ==
  \A id \in StoredIds(downloads) :
     (aborted[id] /\ pc[id] = "failing" /\ caught[id] = Canceled) =>
        /\ JobOf(downloads, id).status = "failed"
        /\ JobOf(downloads, id).error = CancelledByUser

(* C5: cancelDownload(id) for an id that is not in flight returns false    *)
(* and changes neither the Job Store nor the in-flight set nor any task.   *)
C5_CancelNotInFlight ==
  [][\A id \in Ids :
        (id \notin activeDownloads /\ cancelDownload(id)) =>
           /\ ret' = "false"
           /\ UNCHANGED <<downloads, maxConcurrentDownloads, activeDownloads,
                          aborted, pc, caller, downloadedLength, totalLength,
                          caught>>]_vars

\* cancelDownload has just returned false while the store holds a finished
\* job, a waiting job and a running one
C5_Witness ==
  /\ ret = "false"
  /\ \E i \in DOMAIN downloads : downloads[i].status = "completed"
  /\ \E i \in DOMAIN downloads : downloads[i].status = "queued"
  /\ \E i \in DOMAIN downloads : downloads[i].status = "downloading"

(* C6: a startDownload task that has ended, on whatever path, no longer    *)
(* holds its id in the in-flight set.                                      *)
C6_SlotReleased ==
  \A id \in Ids : pc[id] = "done" => id \notin activeDownloads

(* C7: startDownload(job) for an id that is in flight rejects with         *)
(* "Download already in progress" and changes nothing: not the stored job, *)
(* not the in-flight entry and its controller, not the running task.       *)
C7_StartRejected ==
  [][\A id \in Ids :
        (id \in activeDownloads /\ startDownloadDirect(id)) =>
           /\ ret' = AlreadyInProgress
           /\ UNCHANGED <<downloads, maxConcurrentDownloads, activeDownloads,
                          aborted, pc, caller, downloadedLength, totalLength,
                          caught>>]_vars

\* the call has just been rejected while the transfer it hit is under way
C7_Witness ==
  /\ ret = AlreadyInProgress
  /\ \E id \in activeDownloads :
        /\ pc[id] = "streaming"
        /\ JobOf(downloads, id).progress > 0

(* C8: when a transfer fails, the catch block stores Failed and the error  *)
(* message, the promise rejects with that same error towards a direct      *)
(* caller, and a failure of a job started by processQueue reaches no       *)
(* caller and touches no other task.                                       *)
C8_FailureRecordedAndRaised ==
  [][\A id \in Ids :
        /\ (pc[id] # "failing" /\ pc'[id] = "failing") =>
              /\ JobOf(downloads', id).status = "failed"
              /\ JobOf(downloads', id).error = caught'[id]
        /\ failing(id) =>
              /\ ret' = (IF caller[id] = "processQueue" THEN NoCall ELSE caught[id])
              /\ \A other \in Ids \ {id} :
                    pc'[other] = pc[other] /\ aborted'[other] = aborted[other]]_vars

(* C9: a job is created with progress 0, its progress never decreases from *)
(* one state to the next while its status is Downloading, and it is 100    *)
(* whenever the status is Completed.                                       *)
C9_Progress ==
  [][/\ \A i \in DOMAIN downloads' :
          /\ i \notin DOMAIN downloads => downloads'[i].progress = 0
          /\ downloads'[i].status = "completed" => downloads'[i].progress = 100
     /\ \A id \in StoredIds(downloads) :
          (JobOf(downloads, id).status = "downloading"
             /\ JobOf(downloads', id).status = "downloading") =>
            JobOf(downloads', id).progress >= JobOf(downloads, id).progress]_vars

\* a transfer of unknown length has completed while another is half way
C9_Witness ==
  /\ \E i \in DOMAIN downloads :
        downloads[i].status = "completed" /\ downloads[i].progress = 100
  /\ \E i \in DOMAIN downloads :
        downloads[i].status = "downloading" /\ downloads[i].progress = 50

C10_WitnessHit ==
  /\ cacheCall.op = "get"
  /\ cacheCall.ret # <<>>
  /\ cacheCall.key \in DOMAIN cacheFiles
  /\ cacheFiles[cacheCall.key].ttl = 1
  /\ cacheNow - cacheFiles[cacheCall.key].timestamp = 1

StartedCall == IF pending' # <<>> THEN pending'[1] ELSE searchCall'

\* this step is a searchGames call of client for (s, q)
SearchStep(client, s, q) ==
  IF client = "vimms" THEN vimmsSearchGames(s, q) ELSE myrientSearchGames(s, q)

\* the name under which a client stores its results
SourceOf(client) == IF client = "vimms" THEN <<"v", "i", "m", "m", "s">> ELSE <<"m", "y", "r", "i", "e", "n", "t">>

(* C11: for each of the two clients, searchGames looks the triple up in    *)
(* the Result Cache before anything else, and when the cache holds an      *)
(* entry for it that has not expired, the call returns that entry and      *)
(* issues no request.                                                      *)
C11_CacheFirst ==
  [][\A client \in {"vimms", "myrient"}, s \in SearchSystems, q \in SearchTerms :
        SearchStep(client, s, q) =>
          LET key == getCacheKey(SourceOf(client), s, q) IN
          /\ StartedCall.cacheGets = 1
          /\ (/\ key \in DOMAIN cacheFiles
              /\ cacheNow - cacheFiles[key].timestamp <= cacheFiles[key].ttl)
               => /\ pending' = <<>>
                  /\ searchCall'.ret = <<cacheFiles[key].result>>
                  /\ searchCall'.requests = 0]_vars

\* the answers that the claim lists as giving no games
NoGamesAnswer(call) ==
  \/ call.response.kind \in {"reject", "garbage"}
  \/ call.response.kind = "response" /\ call.response.status # 200
  \/ call.response.kind = "response" /\ call.client = "vimms" /\ call.response.noMatches
  \/ call.response.kind = "response" /\ call.response.rows = <<>>

AliasTable(client) ==
  IF client = "vimms" THEN VimmsConsoleMapping ELSE MyrientConsoleMapping

\* the last two calls went to the same client with system ids that differ
\* at most in letter case
SameSystemIgnoringCase ==
  /\ searchCall.client # "none"
  /\ searchCall.client = prevSearch.client
  /\ ToLower(searchCall.consoleSystem) = ToLower(prevSearch.consoleSystem)

Answered(call) == call.outcome \in {"parsed", "no matches"}

Candidates(call) ==
  IF call.client = "vimms"
    THEN deduplicateAndPrioritize(
           vimmsParse(call.response.rows,
                      mapConsole(VimmsConsoleMapping, call.consoleSystem)))
    ELSE LET mappedPath == mapConsole(MyrientConsoleMapping, call.consoleSystem)
         IN myrientParse(call.response.rows,
                         MYRIENT_BASE_URL \o <<"/", "f", "i", "l", "e", "s", "/">> \o mappedPath \o <<"/">>,
                         mappedPath, ToLower(call.searchTerm))

(* C14: every result that searchGames returns has at most 10 games and a   *)
(* totalFound that is at least the number of its games; when it was built  *)
(* from a listing, totalFound is the number of candidates left after       *)
(* filtering and deduplication and games are the first min(10, totalFound) *)
(* of them, in their order.                                                *)
C14_TotalAndSlice ==
  (searchCall.client # "none" /\ Len(searchCall.ret) = 1) =>
    LET result == searchCall.ret[1] IN
    /\ Len(result.games) <= 10
    /\ result.totalFound >= Len(result.games)
    /\ searchCall.outcome = "parsed" =>
         /\ result.totalFound = Len(Candidates(searchCall))
         /\ Len(result.games) = Min(10, result.totalFound)
         /\ \A i \in DOMAIN result.games : result.games[i] = Candidates(searchCall)[i]

\* the table-based client found eleven titles and returned ten of them
C14_Witness ==
  /\ searchCall.client = "vimms"
  /\ searchCall.outcome = "parsed"
  /\ searchCall.ret[1].totalFound = 11
  /\ Len(searchCall.ret[1].games) = 10

\* the rank of a region: Australia, USA, Europe, Japan, then the others
RegionRank(region) ==
  CASE region = "Australia" -> 1
    [] region = "USA" -> 2
    [] region = "Europe" -> 3
    [] region = "Japan" -> 4
    [] OTHER -> 5

\* the games of the listing of a call of the table-based client, before
\* deduplication
Listed(call) ==
  vimmsParse(call.response.rows, mapConsole(VimmsConsoleMapping, call.consoleSystem))

(* C15: of the games of a listing that share a normalized title the        *)
(* table-based client returns exactly one, and it is a game of the group   *)
(* that no other beats: none has a better region rank, and none of the     *)
(* same region rank has a higher parsed version.                           *)
C15_BestOfGroup ==
  (searchCall.client = "vimms" /\ searchCall.outcome = "parsed"
     /\ searchCall.ret[1].totalFound <= 10) =>
    LET games == searchCall.ret[1].games
        listed == Listed(searchCall)
    IN /\ \A i \in DOMAIN listed :
            Cardinality({k \in DOMAIN games :
               normalizedName(games[k].name) = normalizedName(listed[i].name)}) = 1
       /\ \A k \in DOMAIN games :
            /\ \E i \in DOMAIN listed : listed[i] = games[k]
            /\ \A i \in DOMAIN listed :
                 normalizedName(listed[i].name) = normalizedName(games[k].name) =>
                   /\ RegionRank(listed[i].region) >= RegionRank(games[k].region)
                   /\ RegionRank(listed[i].region) = RegionRank(games[k].region) =>
                        parseVersion(listed[i].version) <= parseVersion(games[k].version)

\* the listing had a Japanese 1.1 before an American 1.0 of one title, and
\* the American one was returned
C15_Witness ==
  /\ searchCall.client = "vimms"
  /\ searchCall.outcome = "parsed"
  /\ Len(searchCall.response.rows) = 2
  /\ searchCall.response.rows[1].flagTitle = <<"Japan">>
  /\ searchCall.response.rows[2].flagTitle = <<"USA">>
  /\ Len(searchCall.ret[1].games) = 1
  /\ searchCall.ret[1].games[1].region = "USA"
  /\ searchCall.ret[1].games[1].version = <<"1", ".", "0">>

\* the words of a title: its longest runs of letters, digits and underscores
WordsOf(name) ==
  {ToLower(SubSeq(name, i, j)) : <<i, j>> \in
     {p \in (DOMAIN name) \X (DOMAIN name) :
        /\ p[1] <= p[2]
        /\ \A k \in p[1]..p[2] : IsWordChar(name[k])
        /\ p[1] = 1 \/ ~IsWordChar(name[p[1] - 1])
        /\ p[2] = Len(name) \/ ~IsWordChar(name[p[2] + 1])}}

\* an anchor that the flat-listing client takes for a ROM of the query
Eligible(a, searchTerm) ==
  /\ a.href # <<>>
  /\ ~StartsWith(a.href, <<".", ".">>)
  /\ a.name # <<>>
  /\ isRom(a.href)
  /\ Includes(ToLower(a.name), ToLower(searchTerm))

(* C16: no game that the flat-listing client returns has a title with one  *)
(* of the words demo, sample, preview, beta, alpha, proto, prototype,      *)
(* trial, kiosk, test in any letter case, and a ROM of the listing that    *)
(* matches the query and has such a keyword only inside a longer word, or  *)
(* not at all, is returned.                                                *)
C16_DemoFilter ==
  (searchCall.client = "myrient" /\ searchCall.outcome = "parsed") =>
    LET games == searchCall.ret[1].games
        rows == searchCall.response.rows
    IN /\ \A k \in DOMAIN games : WordsOf(games[k].name) \cap DemoKeywords = {}
       /\ searchCall.ret[1].totalFound <= 10 =>
            \A i \in DOMAIN rows :
               (Eligible(rows[i], searchCall.searchTerm)
                  /\ WordsOf(rows[i].name) \cap DemoKeywords = {})
                 => \E k \in DOMAIN games : games[k].name = rows[i].name

\* the listing had "Demo" and "Ademolition", and only the second was returned
C16_Witness ==
  /\ searchCall.client = "myrient"
  /\ searchCall.outcome = "parsed"
  /\ Len(searchCall.response.rows) = 2
  /\ searchCall.response.rows[1].name = <<"D", "e", "m", "o">>
  /\ searchCall.response.rows[2].name = <<"A", "d", "e", "m", "o", "l", "i", "t", "i", "o", "n">>
  /\ Len(searchCall.ret[1].games) = 1
  /\ searchCall.ret[1].games[1].name = <<"A", "d", "e", "m", "o", "l", "i", "t", "i", "o", "n">>

(* C17: when a download job for a CD-based system has completed with a     *)
(* file whose extension is convertible, the bot has invoked the CHD        *)
(* conversion of that file without any further request.                    *)
C17_AutomaticConversion ==
  \A i \in DOMAIN downloads :
    LET id == downloads[i].id
        game == GameOf(id)
    IN (/\ downloads[i].status = "completed"
        /\ pc[id] = "done"
        /\ shouldConvertToCHD(filePathOf(game), systemNameOf(game.console)))
         => /\ conversion.pc # "idle"
            /\ conversion.inputPath = filePathOf(game)

\* the names of the CD-based systems and the extensions of the disc images
CdSystemNames == {<<"p", "s", "x">>, <<"p", "s", "2">>, <<"s", "a", "t", "u", "r", "n">>, <<"d", "r", "e", "a", "m", "c", "a", "s", "t">>, <<"s", "e", "g", "a", "c", "d">>}

DiscImageExtensions == {<<".", "b", "i", "n">>, <<".", "i", "s", "o">>, <<".", "i", "m", "g">>, <<".", "c", "u", "e">>}

\* the last segment of path is a non-empty name followed by ext, in any
\* letter case
HasExtension(path, ext) ==
  /\ EndsWith(ToLower(path), ext)
  /\ Len(path) > Len(ext)
  /\ path[Len(path) - Len(ext)] # "/"

(* C18: shouldConvertToCHD returns true exactly when the system name is,   *)
(* in any letter case, one of psx, ps2, saturn, dreamcast, segacd and the  *)
(* extension of the path is, in any letter case, one of .bin, .iso, .img,  *)
(* .cue; for every other pair it returns false.                            *)
C18_ExactlyDiscImages ==
  shouldCall.ret # <<>> =>
    (shouldCall.ret[1] <=>
       /\ ToLower(shouldCall.systemName) \in CdSystemNames
       /\ \E ext \in DiscImageExtensions : HasExtension(shouldCall.filePath, ext))

\* d/G.BIN of SegaCD is to be converted
C18_Witness ==
  /\ shouldCall.filePath = <<"d", "/", "G", ".", "B", "I", "N">>
  /\ shouldCall.systemName = <<"S", "e", "g", "a", "C", "D">>
  /\ shouldCall.ret = <<TRUE>>

\* the convertToCHD call has returned a failure result
ChdFailed == /\ conversion.pc = "done"
             /\ Len(conversion.ret) = 1
             /\ ~conversion.ret[1].success

(* C19: convertToCHD never throws and runs its stages in order: a missing  *)
(* input gives a failure result with no process started; a probe that      *)
(* exits non-zero or cannot be spawned gives a failure result that names   *)
(* chdman with no conversion process started; a conversion that exits      *)
(* non-zero or cannot be spawned gives a failure result; and a success     *)
(* result is returned only when the input existed, the probe exited 0 and  *)
(* the conversion exited 0.                                                *)
C19_StagesInOrder ==
  /\ conversion.thrown = "none"
  /\ conversion.pc = "done" <=> Len(conversion.ret) = 1
  /\ Len(conversion.spawned) <= 2
  /\ Len(conversion.spawned) >= 1 => conversion.spawned[1] = ProbeCommand
  /\ Len(conversion.spawned) = 2 =>
       /\ conversion.probe = "exit 0"
       /\ conversion.spawned[2][2] = <<"c", "r", "e", "a", "t", "e", "c", "d">>
  /\ conversion.conversion # "none" => Len(conversion.spawned) = 2
  /\ conversion.inputFound = <<FALSE>> => ChdFailed /\ conversion.spawned = <<>>
  /\ conversion.probe \in {"exit non-zero", "spawn error"} =>
       /\ ChdFailed
       /\ Includes(conversion.ret[1].error[1], <<"c", "h", "d", "m", "a", "n">>)
       /\ Len(conversion.spawned) = 1
  /\ conversion.conversion \in {"exit non-zero", "spawn error"} => ChdFailed
  /\ (conversion.pc = "done" /\ conversion.ret[1].success) =>
       /\ conversion.inputFound = <<TRUE>>
       /\ conversion.probe = "exit 0"
       /\ conversion.conversion = "exit 0"

\* the probe exited 0 and the conversion process exited with code 1
C19_Witness ==
  /\ ChdFailed
  /\ conversion.probe = "exit 0"
  /\ conversion.conversion = "exit non-zero"
  /\ Len(conversion.spawned) = 2

\* the files that a cleanup of originalPath is to delete: the original and,
\* for a .bin in any letter case, its .cue sibling
CleanupTargets(originalPath) ==
  {originalPath} \cup
    (IF HasExtension(originalPath, <<".", "b", "i", "n">>)
       THEN {SubSeq(originalPath, 1, Len(originalPath) - 4) \o <<".", "c", "u", "e">>}
       ELSE {})

(* C20: cleanupOriginalFiles deletes nothing when keepOriginal is true;    *)
(* otherwise it deletes the original and, for a .bin in any letter case,   *)
(* the .cue sibling when there is one, and no other file; a deletion that  *)
(* fails leaves the other files alone and nothing reaches the caller.      *)
C20_CleanupFrame ==
  [][\A originalPath \in CleanupPaths, keepOriginal \in BOOLEAN, fails \in RemoveFailures :
        cleanupOriginalFiles(originalPath, keepOriginal, fails) =>
          /\ cleanupCall'.thrown = "none"
          /\ cleanupCall'.returned
          /\ \A p \in DOMAIN disk' : p \in DOMAIN disk /\ disk'[p] = disk[p]
          /\ keepOriginal => DOMAIN disk' = DOMAIN disk
          /\ DOMAIN disk \ DOMAIN disk' \subseteq CleanupTargets(originalPath)
          /\ (~keepOriginal /\ fails = "none") =>
               DOMAIN disk' = DOMAIN disk \ CleanupTargets(originalPath)]_vars

\* d/G.BIN and d/G.cue were deleted and d/G.CUE was left
C20_Witness ==
  /\ cleanupCall.originalPath = <<"d", "/", "G", ".", "B", "I", "N">>
  /\ ~cleanupCall.keepOriginal
  /\ cleanupCall.fails = "none"
  /\ cleanupCall.returned
  /\ DOMAIN disk = {<<"d", "/", "G", ".", "C", "U", "E">>}

(* C21: while a transfer runs, every progress value that a chunk writes to *)
(* the job is floor(bytes received / total bytes * 100) when the response  *)
(* headers gave the total length, and 0 when they did not.                 *)
C21_ProgressIsFloor ==
  [][\A id \in Ids :
        (/\ pc[id] = "streaming" /\ pc'[id] = "streaming"
         /\ downloadedLength'[id] # downloadedLength[id]) =>
           JobOf(downloads', id).progress =
             (IF totalLength[id] > 0
                THEN (downloadedLength'[id] * 100) \div totalLength[id]
                ELSE 0)]_vars

(* C25: a job whose stored status is Completed keeps that status in every  *)
(* step in which no Job Store write fails, whatever cancelDownload,        *)
(* processQueue and the ending steps of startDownload do.                  *)
C25_CompletedAbsorbing ==
  [][\A id \in StoredIds(downloads) :
        (JobOf(downloads, id).status = "completed" /\ caught'[id] = caught[id]) =>
           JobOf(downloads', id).status = "completed"]_vars

\* the cache key of a call of the table-based client
VimmsKey(consoleSystem, searchTerm) == getCacheKey(<<"v", "i", "m", "m", "s">>, consoleSystem, searchTerm)

\* the call that finished last was a call of the table-based client for
\* (s, q) that ended as outcome
LastVimmsCall(s, q, outcome) ==
  /\ searchCall.client = "vimms"
  /\ searchCall.consoleSystem = s
  /\ searchCall.searchTerm = q
  /\ searchCall.outcome = outcome

C30_ErrorNotCached ==
  [][/\ \A resp \in VimmsResponses :
          (vimmsResponse(resp) /\ searchCall'.outcome = "error") =>
             cacheFiles' = cacheFiles
     /\ \A s \in SearchSystems, q \in SearchTerms :
          (vimmsSearchGames(s, q) /\ LastVimmsCall(s, q, "error")) =>
             /\ pending' # <<>>
             /\ pending'[1].requests = 1
             /\ searchCall' = searchCall]_vars

\* two calls for the same triple in a row ended in the catch block, the
\* first on a status that is not accepted, and each sent a request
C30_Witness ==
  /\ searchCall.client = "vimms" /\ prevSearch.client = "vimms"
  /\ searchCall.consoleSystem = prevSearch.consoleSystem
  /\ searchCall.searchTerm = prevSearch.searchTerm
  /\ prevSearch.outcome = "error" /\ prevSearch.response.status = 500
  /\ searchCall.outcome = "error"
  /\ prevSearch.requests = 1 /\ searchCall.requests = 1
  /\ VimmsKey(searchCall.consoleSystem, searchCall.searchTerm) \notin DOMAIN cacheFiles

(* C23: cleanup removes exactly the stored entries that are older than     *)
(* their own TTL or cannot be read, leaves every other entry as it was,    *)
(* and returns the number of entries it removed; when the store cannot be  *)
(* enumerated it removes nothing and returns 0.                            *)
C23_CleanupExact ==
  [][\A enumerable \in BOOLEAN, listed \in Listings(cacheFiles),
        unreadable \in SUBSET DOMAIN cacheFiles, locked \in DOMAIN cacheFiles \cup {NoKey} :
        cleanup(enumerable, listed, unreadable, locked) =>
          LET removed == DOMAIN cacheFiles \ DOMAIN cacheFiles'
              stale == {k \in DOMAIN cacheFiles :
                          \/ k \in unreadable
                          \/ cacheNow - cacheFiles[k].timestamp > cacheFiles[k].ttl}
          IN /\ \A k \in DOMAIN cacheFiles' :
                   k \in DOMAIN cacheFiles /\ cacheFiles'[k] = cacheFiles[k]
             /\ cacheCall'.ret = <<cleanupRet(Cardinality(removed))>>
             /\ removed \subseteq stale
             /\ (enumerable /\ locked = NoKey) => removed = stale
             /\ ~enumerable => removed = {} /\ cacheCall'.ret = <<cleanupRet(0)>>]_vars

(* C24: when a conversion succeeds, the reported originalSize is the size  *)
(* of the input read before chdman was spawned, the reported               *)
(* compressedSize is the size of the output file after chdman has exited,  *)
(* and compressionRatio is the integer nearest to                          *)
(* (1 - compressedSize / originalSize) * 100, a half rounding up.          *)
C24_CompressionRatio ==
  [][\A code \in ExitCodes, written \in WrittenSizes :
        (/\ conversionClose(code, written)
         /\ conversion'.ret # <<>>
         /\ conversion'.ret[1].success) =>
           LET result == conversion'.ret[1]
               outputPath == outputPathOf(conversion.inputPath, conversion.outputDir)
               o == result.originalSize[1]
               c == result.compressedSize[1]
               r == result.compressionRatio[1]
           IN /\ result.originalSize = conversion.originalSize
              /\ outputPath \in DOMAIN disk' /\ c = disk'[outputPath]
              /\ IF o = 0
                   THEN r = (IF c = 0 THEN "NaN" ELSE "-Infinity")
                   ELSE 2 * r * o - o <= 200 * (o - c) /\ 200 * (o - c) < 2 * r * o + o]_vars

\* a 2-byte input has been converted to a 1-byte output: the ratio is 50
C24_Witness ==
  /\ conversion.pc = "done"
  /\ conversion.ret # <<>>
  /\ conversion.ret[1].success
  /\ conversion.ret[1].originalSize = <<2>>
  /\ conversion.ret[1].compressedSize = <<1>>
  /\ conversion.ret[1].compressionRatio = <<50>>

(* C26: cache entries are isolated per triple: a set for one triple never  *)
(* changes what a get for a different triple returns, because distinct     *)
(* triples have distinct cache keys.                                       *)
C26_KeyIsolation ==
  [][\A t, u \in Triples :
        t # u =>
          \A result \in Results, ttl \in TTLArgs :
            cacheSet(t, result, ttl) =>
              cacheGetRet(cacheFiles', KeyOf(u), cacheNow) =
                cacheGetRet(cacheFiles, KeyOf(u), cacheNow)]_vars

\* the job id is stored with the given status
HasStatus(id, statuses) ==
  id \in StoredIds(downloads) /\ JobOf(downloads, id).status \in statuses

(* C27: when processQueue keeps being called, every transfer ends and the  *)
(* writes of the Job Store succeed, every queued job eventually is         *)
(* completed or failed.                                                    *)
C27_QueuedJobsEnd ==
  \A id \in Ids : HasStatus(id, {"queued"}) ~> HasStatus(id, {"completed", "failed"})

\* with room for one transfer at a time, the second of two jobs has been
\* completed after the first one
C27_Witness ==
  /\ maxConcurrentDownloads = 1
  /\ HasStatus(1, {"completed", "failed"})
  /\ HasStatus(2, {"completed"})
  /\ pc[2] = "done"

\* the writer of the startDownload task of job id is open, on filePath
Writing(id) == id \in activeDownloads /\ pc[id] = "streaming"

(* C28: no two jobs that are in flight at the same time write to the same  *)
(* destination file path, also when the same game is queued more than once.*)
C28_DistinctDestinations ==
  \A i, j \in Ids :
    (i # j /\ Writing(i) /\ Writing(j)) =>
      filePathOf(GameOf(i)) # filePathOf(GameOf(j))

\* the folder codes that startDownload derives from the games a call returned
FolderCodes(call) ==
  IF call.ret = <<>> THEN {}
  ELSE {systemNameOf(call.ret[1].games[i].console) : i \in DOMAIN call.ret[1].games}

(* C29: for every system id that both search clients map, the folder code  *)
(* that startDownload derives from a Game of the flat-listing client is    *)
(* the folder code it derives from a Game of the table-based client.       *)
C29_OneFolderPerSystem ==
  (/\ prevSearch.client # "none"
   /\ searchCall.client # "none"
   /\ prevSearch.client # searchCall.client
   /\ prevSearch.consoleSystem = searchCall.consoleSystem
   /\ searchCall.consoleSystem \in MappedSystems) =>
     \A a \in FolderCodes(prevSearch), b \in FolderCodes(searchCall) : a = b

====
